---- MODULE Spec2Model ----
(***************************************************************************)
(* Ekos scheduler (kstars): the scheduler iteration loop, the job          *)
(* execution state machine and the job termination logic of               *)
(* Scheduler (src/unnamed/part_001), as a state machine.                   *)
(*                                                                         *)
(* The handlers of the C++ class are written as operators on a record `s` *)
(* that holds the whole program state (the job list, the module state,    *)
(* the options, the clock and the commands issued so far in the current   *)
(* handler); an action applies one handler, with the answers of the       *)
(* external collaborators (subsystem properties, the greedy scheduler,    *)
(* the startup/shutdown procedures) drawn from small sets.                 *)
(*                                                                         *)
(* The plate-solving queue of ImageOverlayComponent                        *)
(* (src/unnamed/part_003) is a second, independent state machine.          *)
(***************************************************************************)
EXTENDS Integers, Sequences, FiniteSets, TLC

VARIABLES jobs, ms, greedy, options, now, out, frames, overlay

vars == <<jobs, ms, greedy, options, now, out, frames, overlay>>

(***************************************************************************)
(* Bounds of the model.                                                    *)
(***************************************************************************)
NJobs == 2
MaxRepeats == 3
MaxTime == 3
MaxFailureAttempts == 1
MaxCaptureBatch == 2
MaxFiles == 1

JobIds == 1..NJobs
NoJob == 0

\* the signatures of the sequence jobs, and a signature without an entry
Signatures == 1..NJobs
NoCount == -1

(***************************************************************************)
(* Enumerations.  SchedulerJobStatus is ordered: the code compares        *)
(* statuses with <= SCHEDJOB_BUSY and SCHEDJOB_ERROR <=.                   *)
(***************************************************************************)
JobStatusOrder == <<"SCHEDJOB_IDLE", "SCHEDJOB_EVALUATION", "SCHEDJOB_SCHEDULED", "SCHEDJOB_BUSY",
                    "SCHEDJOB_ERROR", "SCHEDJOB_ABORTED", "SCHEDJOB_INVALID", "SCHEDJOB_COMPLETE">>

StatusRank(st) == CHOOSE i \in 1..Len(JobStatusOrder) : JobStatusOrder[i] = st

\* An invalid QDateTime: secsTo() an invalid date is 0.
InvalidTime == -1

secsTo(from, to) == IF to = InvalidTime THEN 0 ELSE to - from

(***************************************************************************)
(* The program state as one record, and its parts.                         *)
(*   jobs    : the job list (SchedulerModuleState::jobs()), by job id;     *)
(*             `present` is false for a slot that holds no job.            *)
(*   ms      : SchedulerModuleState (active job, scheduler and timer       *)
(*             state, failure counters, ...).                              *)
(*   greedy  : GreedyScheduler::getScheduledJob().                         *)
(*   options : Options:: and the error handling widgets.                   *)
(*   now     : SchedulerModuleState::getLocalTime().                       *)
(*   frames  : SchedulerModuleState::capturedFramesCount(), the number of  *)
(*             stored frames by signature, NoCount for no entry.          *)
(*   out     : the commands sent to the subsystems, the signals emitted    *)
(*             and the handlers entered by the last operation.             *)
(* The variable overlay is the ImageOverlayComponent, which the scheduler  *)
(* does not touch.                                                         *)
(***************************************************************************)
Cur ==
    [jobs |-> jobs, ms |-> ms, greedy |-> greedy, options |-> options, now |-> now, out |-> out,
     frames |-> frames]

Apply(s) ==
    /\ jobs' = s.jobs
    /\ ms' = s.ms
    /\ greedy' = s.greedy
    /\ options' = s.options
    /\ now' = s.now
    /\ out' = s.out
    /\ frames' = s.frames
    /\ overlay' = overlay

Begin == [Cur EXCEPT !.out = {}]

Emit(s, what) == [s EXCEPT !.out = @ \cup {what}]

\* appendLogText: the log is not part of the state
Log(s, what) == s

\* a signal or a call that nothing in the model observes
Signal(s, what) == s

activeJob(s) == s.ms.activeJob

Active(s) == s.jobs[s.ms.activeJob]

setJobState(s, j, st) == [s EXCEPT !.jobs[j].state = st]

setState(s, st) == setJobState(s, s.ms.activeJob, st)

\* Scheduler::updateJobStage
updateJobStage(s, stage) == [s EXCEPT !.jobs[s.ms.activeJob].stage = stage]

\* SchedulerJob::isDuplicateOf: same target and sequence file, another job.
isDuplicateOf(s, a, b) == a # b /\ s.jobs[a].sequence = s.jobs[b].sequence

PresentJobs(s) == {j \in JobIds : s.jobs[j].present}

(***************************************************************************)
(* SchedulerModuleState.                                                   *)
(***************************************************************************)
UpdatePeriodMs == 1000

\* setupNextIteration(nextState, milliseconds): when called while the
\* iteration timer is running the timer is restarted with the (clamped)
\* delay, else the delay is kept for iterate().
setupNextIterationMs(s, nextState, msecs) ==
    [s EXCEPT !.ms.timerState = nextState,
              !.ms.timerInterval = IF s.ms.timerActive /\ msecs < 0 THEN 0 ELSE msecs,
              !.ms.iterationSetup = TRUE]

setupNextIteration(s, nextState) == setupNextIterationMs(s, nextState, UpdatePeriodMs)

setTimerInterval(s, msecs) == [s EXCEPT !.ms.timerInterval = msecs]

setIterationSetup(s, b) == [s EXCEPT !.ms.iterationSetup = b]

\* increaseXFailureCount: ++count <= maxFailureAttempts
increaseAlignFailureCount(s) == [s EXCEPT !.ms.alignFailureCount = @ + 1]
increaseCaptureFailureCount(s) == [s EXCEPT !.ms.captureFailureCount = @ + 1]
increaseFocusFailureCount(s) == [s EXCEPT !.ms.focusFailureCount = @ + 1]
increaseGuideFailureCount(s) == [s EXCEPT !.ms.guideFailureCount = @ + 1]

\* a reset that forgets the capture failures
resetFailureCountersButCapture(s) ==
    [s EXCEPT !.ms.alignFailureCount = 0, !.ms.guideFailureCount = 0, !.ms.focusFailureCount = 0]

resetFailureCounters(s) ==
    [s EXCEPT !.ms.alignFailureCount = 0, !.ms.guideFailureCount = 0,
              !.ms.focusFailureCount = 0, !.ms.captureFailureCount = 0]

(***************************************************************************)
(* SchedulerProcess: the commands to the subsystems.  Each start command   *)
(* moves the active job to the stage of the operation it starts.           *)
(***************************************************************************)
startSlew(s) == updateJobStage(Emit(s, "mount.slew"), "SCHEDSTAGE_SLEWING")

startFocusing(s) ==
    updateJobStage(Emit(s, "focus.start"),
                   IF Active(s).stage \in {"SCHEDSTAGE_RESLEWING_COMPLETE", "SCHEDSTAGE_POSTALIGN_FOCUSING"}
                   THEN "SCHEDSTAGE_POSTALIGN_FOCUSING" ELSE "SCHEDSTAGE_FOCUSING")

startAstrometry(s) == updateJobStage(Emit(s, "align.start"), "SCHEDSTAGE_ALIGNING")

startGuiding(s) == updateJobStage(Emit(s, "guide.start"), "SCHEDSTAGE_GUIDING")

startCapture(s) == updateJobStage(Emit(s, "capture.start"), "SCHEDSTAGE_CAPTURING")

stopGuiding(s) == Emit(s, "guide.stop")

(***************************************************************************)
(* Scheduler::getNextAction.  e.guiding is the answer of                   *)
(* process()->getGuidingStatus() == GUIDE_GUIDING.                         *)
(***************************************************************************)
Uses(s, step) == step \in Active(s).stepPipeline

\* a pipeline that goes from focus to guiding and forgets the alignment
nextStepWithoutAlign(s, e) ==
    LET stage == Active(s).stage IN
    CASE stage = "SCHEDSTAGE_IDLE" ->
            IF Uses(s, "USE_TRACK") THEN startSlew(s)
            ELSE IF Uses(s, "USE_FOCUS") /\ ~s.ms.autofocusCompleted THEN startFocusing(s)
            ELSE IF Uses(s, "USE_GUIDE") /\ ~e.guiding THEN startGuiding(s)
            ELSE startCapture(s)
      [] stage \in {"SCHEDSTAGE_SLEW_COMPLETE", "SCHEDSTAGE_FOCUS_COMPLETE"} ->
            IF Uses(s, "USE_FOCUS") /\ ~s.ms.autofocusCompleted THEN startFocusing(s)
            ELSE IF Uses(s, "USE_GUIDE") THEN startGuiding(s)
            ELSE startCapture(s)
      [] stage = "SCHEDSTAGE_GUIDING_COMPLETE" -> startCapture(s)
      [] OTHER -> s

\* a pipeline that goes on from the alignment without the re-slew
nextStepWithoutReslew(s, e) ==
    LET stage == Active(s).stage IN
    CASE stage = "SCHEDSTAGE_IDLE" ->
            IF Active(s).lightFramesRequired
            THEN IF Uses(s, "USE_TRACK") THEN startSlew(s)
                 ELSE IF Uses(s, "USE_FOCUS") /\ ~s.ms.autofocusCompleted THEN startFocusing(s)
                 ELSE IF Uses(s, "USE_ALIGN") THEN startAstrometry(s)
                 ELSE IF Uses(s, "USE_GUIDE")
                      THEN IF e.guiding THEN startCapture(Log(s, "log.guidingAlreadyRunning"))
                           ELSE startGuiding(s)
                 ELSE startCapture(s)
            ELSE startCapture(s)
      [] stage = "SCHEDSTAGE_SLEW_COMPLETE" ->
            IF Uses(s, "USE_FOCUS") /\ ~s.ms.autofocusCompleted THEN startFocusing(s)
            ELSE IF Uses(s, "USE_ALIGN") THEN startAstrometry(s)
            ELSE IF Uses(s, "USE_GUIDE") THEN startGuiding(s)
            ELSE startCapture(s)
      [] stage = "SCHEDSTAGE_FOCUS_COMPLETE" ->
            IF Uses(s, "USE_ALIGN") THEN startAstrometry(s)
            ELSE IF Uses(s, "USE_GUIDE") THEN startGuiding(s)
            ELSE startCapture(s)
      [] stage = "SCHEDSTAGE_ALIGN_COMPLETE" ->
            IF Uses(s, "USE_GUIDE") THEN startGuiding(s)
            ELSE startCapture(s)
      [] stage = "SCHEDSTAGE_RESLEWING_COMPLETE" ->
            IF Uses(s, "USE_FOCUS") /\ Active(s).inSequenceFocus THEN startFocusing(s)
            ELSE IF Uses(s, "USE_GUIDE") THEN startGuiding(s)
            ELSE startCapture(s)
      [] stage = "SCHEDSTAGE_POSTALIGN_FOCUSING_COMPLETE" ->
            IF Uses(s, "USE_GUIDE") THEN startGuiding(s)
            ELSE startCapture(s)
      [] stage = "SCHEDSTAGE_GUIDING_COMPLETE" -> startCapture(s)
      [] OTHER -> s

\* the switch of getNextAction on the stage of the active job
nextStep(s, e) ==
    LET stage == Active(s).stage IN
    CASE stage = "SCHEDSTAGE_IDLE" ->
            IF Active(s).lightFramesRequired
            THEN IF Uses(s, "USE_TRACK") THEN startSlew(s)
                 ELSE IF Uses(s, "USE_FOCUS") /\ ~s.ms.autofocusCompleted THEN startFocusing(s)
                 ELSE IF Uses(s, "USE_ALIGN") THEN startAstrometry(s)
                 ELSE IF Uses(s, "USE_GUIDE")
                      THEN IF e.guiding THEN startCapture(Log(s, "log.guidingAlreadyRunning"))
                           ELSE startGuiding(s)
                 ELSE startCapture(s)
            ELSE startCapture(s)
      [] stage = "SCHEDSTAGE_SLEW_COMPLETE" ->
            IF Uses(s, "USE_FOCUS") /\ ~s.ms.autofocusCompleted THEN startFocusing(s)
            ELSE IF Uses(s, "USE_ALIGN") THEN startAstrometry(s)
            ELSE IF Uses(s, "USE_GUIDE") THEN startGuiding(s)
            ELSE startCapture(s)
      [] stage = "SCHEDSTAGE_FOCUS_COMPLETE" ->
            IF Uses(s, "USE_ALIGN") THEN startAstrometry(s)
            ELSE IF Uses(s, "USE_GUIDE") THEN startGuiding(s)
            ELSE startCapture(s)
      [] stage = "SCHEDSTAGE_ALIGN_COMPLETE" -> updateJobStage(s, "SCHEDSTAGE_RESLEWING")
      [] stage = "SCHEDSTAGE_RESLEWING_COMPLETE" ->
            IF Uses(s, "USE_FOCUS") /\ Active(s).inSequenceFocus THEN startFocusing(s)
            ELSE IF Uses(s, "USE_GUIDE") THEN startGuiding(s)
            ELSE startCapture(s)
      [] stage = "SCHEDSTAGE_POSTALIGN_FOCUSING_COMPLETE" ->
            IF Uses(s, "USE_GUIDE") THEN startGuiding(s)
            ELSE startCapture(s)
      [] stage = "SCHEDSTAGE_GUIDING_COMPLETE" -> startCapture(s)
      [] OTHER -> s

\* the stage at which getNextAction is entered is recorded in out
getNextAction(s, e) == nextStep(Emit(s, "getNextAction." \o Active(s).stage), e)

(***************************************************************************)
(* Scheduler::stopCurrentJobAction.                                        *)
(***************************************************************************)
\* the abort commands of the align and the focus module swapped
AbortOfStageSwapped(stage) ==
    CASE stage = "SCHEDSTAGE_SLEWING" -> {"mount.abort"}
      [] stage = "SCHEDSTAGE_FOCUSING" -> {"align.abort"}
      [] stage = "SCHEDSTAGE_ALIGNING" -> {"focus.abort"}
      [] stage = "SCHEDSTAGE_CAPTURING" -> {"capture.abort.blocking"}
      [] OTHER -> {}

AbortOfStage(stage) ==
    CASE stage = "SCHEDSTAGE_SLEWING" -> {"mount.abort"}
      [] stage = "SCHEDSTAGE_FOCUSING" -> {"focus.abort"}
      [] stage = "SCHEDSTAGE_ALIGNING" -> {"align.abort"}
      [] stage = "SCHEDSTAGE_CAPTURING" -> {"capture.abort.blocking"}
      [] OTHER -> {}

stopCurrentJobAction(s) ==
    stopGuiding(
        IF activeJob(s) # NoJob
        THEN updateJobStage([s EXCEPT !.out = @ \cup {"stopCurrentJobAction"} \cup AbortOfStage(Active(s).stage)],
                            "SCHEDSTAGE_IDLE")
        ELSE s)

(***************************************************************************)
(* Scheduler::setActiveJob.                                                *)
(***************************************************************************)
setActiveJob(s, j) == [s EXCEPT !.ms.activeJob = j]

(***************************************************************************)
(* Scheduler::stop.                                                        *)
(***************************************************************************)
AbortUnprocessed(s) ==
    [j \in JobIds |->
        IF s.jobs[j].present /\ StatusRank(s.jobs[j].state) <= StatusRank("SCHEDJOB_BUSY")
        THEN [s.jobs[j] EXCEPT !.state = "SCHEDJOB_ABORTED"]
        ELSE s.jobs[j]]

\* a stop that leaves the states of the jobs alone
abortJobsForgotten(s) == s

abortJobs(s) == [s EXCEPT !.jobs = AbortUnprocessed(s)]

stopJobs(s) ==
    IF s.ms.preemptiveShutdown THEN s
    ELSE abortJobs(IF activeJob(s) # NoJob /\ Active(s).present THEN stopCurrentJobAction(s) ELSE s)

stopStartupState(s) ==
    IF s.ms.startupState # "STARTUP_COMPLETE" \/ s.ms.preemptiveShutdown THEN "STARTUP_IDLE"
    ELSE IF s.options.unparkMount THEN "STARTUP_UNPARK_MOUNT"
    ELSE s.ms.startupState

\* the reset of the module state in stop()
stopReset(s) ==
    resetFailureCounters(setActiveJob(
        [s EXCEPT !.ms.schedulerState = "SCHEDULER_IDLE",
                  !.ms.ekosState = "EKOS_IDLE",
                  !.ms.indiState = "INDI_IDLE",
                  !.ms.parkWaitState = "PARKWAIT_IDLE",
                  !.ms.startupState = stopStartupState(s),
                  !.ms.shutdownState = "SHUTDOWN_IDLE",
                  !.ms.autofocusCompleted = FALSE], NoJob))

\* the end of stop(): a soft shutdown sleeps until the next job is ready
stopWakeup(s) ==
    IF s.ms.preemptiveShutdown
    THEN setupNextIterationMs(s, "RUN_WAKEUP", (secsTo(s.now, s.ms.wakeupTime) + 1) * 1000)
    ELSE Signal(s, "capture.clearTargetName")

\* a stop that does not look at the state of the scheduler
stopInAnyState(s) == stopWakeup(stopReset(setupNextIteration(stopJobs(Emit(s, "stop")), "RUN_NOTHING")))

stop(s) ==
    IF s.ms.schedulerState # "SCHEDULER_RUNNING" THEN s
    ELSE stopWakeup(stopReset(setupNextIteration(stopJobs(Emit(s, "stop")), "RUN_NOTHING")))

(***************************************************************************)
(* SchedulerProcess: the startup, shutdown and park-wait procedures.  A    *)
(* handler that also returns a value yields [s |-> state, r |-> value].    *)
(* e.proc is how far the procedure got on this call: "ok", "wait", "fail". *)
(***************************************************************************)
Ret(s, r) == [s |-> s, r |-> r]

completeShutdown(s) == Ret(stop(Signal(s, "completeShutdown")), FALSE)

processCheckShutdownState(s, e) ==
    CASE s.ms.shutdownState = "SHUTDOWN_IDLE" ->
            IF e.proc = "ok" THEN Ret([s EXCEPT !.ms.shutdownState = "SHUTDOWN_COMPLETE"], TRUE)
            ELSE Ret([s EXCEPT !.ms.shutdownState = "SHUTDOWN_PARK_MOUNT"], FALSE)
      [] s.ms.shutdownState = "SHUTDOWN_PARK_MOUNT" ->
            IF e.proc = "ok" THEN Ret([s EXCEPT !.ms.shutdownState = "SHUTDOWN_COMPLETE"], FALSE)
            ELSE IF e.proc = "fail" THEN Ret([s EXCEPT !.ms.shutdownState = "SHUTDOWN_ERROR"], FALSE)
            ELSE Ret(s, FALSE)
      [] OTHER -> completeShutdown(s)

checkStartupState(s, e) ==
    CASE s.ms.startupState = "STARTUP_COMPLETE" -> Ret(s, TRUE)
      [] s.ms.startupState = "STARTUP_ERROR" -> Ret(s, TRUE)
      [] s.ms.startupState = "STARTUP_IDLE" ->
            IF e.proc = "ok" THEN Ret([s EXCEPT !.ms.startupState = "STARTUP_UNPARK_MOUNT"], FALSE)
            ELSE IF e.proc = "fail" THEN Ret([s EXCEPT !.ms.startupState = "STARTUP_ERROR"], FALSE)
            ELSE Ret(s, FALSE)
      [] OTHER ->
            IF e.proc = "ok" THEN Ret([s EXCEPT !.ms.startupState = "STARTUP_COMPLETE"], TRUE)
            ELSE IF e.proc = "fail" THEN Ret([s EXCEPT !.ms.startupState = "STARTUP_ERROR"], FALSE)
            ELSE Ret(s, FALSE)

checkEkosState(s, e) ==
    IF e.proc = "ok" THEN Ret([s EXCEPT !.ms.ekosState = "EKOS_READY"], TRUE) ELSE Ret(s, FALSE)

checkINDIState(s, e) ==
    IF e.proc = "ok" THEN Ret([s EXCEPT !.ms.indiState = "INDI_READY"], TRUE) ELSE Ret(s, FALSE)

checkParkWaitState(s, e) ==
    CASE s.ms.parkWaitState = "PARKWAIT_IDLE" -> Ret(s, TRUE)
      [] s.ms.parkWaitState = "PARKWAIT_PARK" ->
            IF e.proc = "ok" THEN Ret(Signal([s EXCEPT !.ms.parkWaitState = "PARKWAIT_PARKED"], "mount.park"), FALSE)
            ELSE Ret(s, FALSE)
      [] OTHER -> Ret(s, TRUE)

(***************************************************************************)
(* Scheduler::checkShutdownState.                                          *)
(***************************************************************************)
checkShutdownState(s, e) ==
    IF s.ms.schedulerState = "SCHEDULER_PAUSED" THEN Ret(s, FALSE)
    ELSE processCheckShutdownState(
            IF s.ms.shutdownState = "SHUTDOWN_IDLE"
            THEN setupNextIteration(setActiveJob(Signal(s, "notify.ObservatoryShutdown"), NoJob), "RUN_SHUTDOWN")
            ELSE s, e)

(***************************************************************************)
(* Scheduler::shouldSchedulerSleep.                                        *)
(***************************************************************************)
shouldSchedulerSleep(s, job, e) ==
    LET nextObservationTime == secsTo(s.now, s.jobs[job].startupTime) IN
    IF ~s.jobs[job].lightFramesRequired THEN Ret(s, FALSE)
    ELSE IF s.greedy # job THEN Ret(s, FALSE)
    ELSE IF /\ s.ms.startupState = "STARTUP_COMPLETE"
            /\ s.options.preemptiveShutdown
            /\ nextObservationTime > s.options.preemptiveShutdownTime
         THEN Ret(checkShutdownState([s EXCEPT !.ms.preemptiveShutdown = TRUE,
                                               !.ms.wakeupTime = s.jobs[job].startupTime], e).s, TRUE)
    ELSE IF /\ nextObservationTime > s.options.leadTime
            /\ s.ms.startupState = "STARTUP_COMPLETE"
            /\ s.ms.parkWaitState = "PARKWAIT_IDLE"
            /\ "USE_TRACK" \in s.jobs[job].stepPipeline
            /\ s.options.parkMount
         THEN Ret([s EXCEPT !.ms.parkWaitState = "PARKWAIT_PARK"], FALSE)
    ELSE IF nextObservationTime > s.options.leadTime
         THEN Ret(setupNextIterationMs(Log(s, "log.sleeping"), "RUN_WAKEUP", (nextObservationTime + 1) * 1000), TRUE)
    ELSE Ret(s, FALSE)

(***************************************************************************)
(* Scheduler::executeJob.                                                  *)
(***************************************************************************)
\* a start that does not look at the startup time of the job
startJobWhenAwake(sl, job) ==
    IF sl.r THEN Ret(sl.s, FALSE)
    ELSE Ret(setupNextIteration(
                setJobState([sl.s EXCEPT !.ms.autofocusCompleted = FALSE], job, "SCHEDJOB_BUSY"),
                "RUN_JOBCHECK"), TRUE)

\* the start of the job unless the scheduler sleeps or the job is not due
startJob(sl, job) ==
    IF sl.r THEN Ret(sl.s, FALSE)
    ELSE IF 0 < secsTo(sl.s.now, sl.s.jobs[job].startupTime) THEN Ret(sl.s, FALSE)
    ELSE Ret(setupNextIteration(
                Signal(setJobState([sl.s EXCEPT !.ms.autofocusCompleted = FALSE], job, "SCHEDJOB_BUSY"),
                       "notify.JobStart"),
                "RUN_JOBCHECK"), TRUE)

executeJob(s, job, e) ==
    IF job = NoJob THEN Ret(s, FALSE)
    ELSE IF activeJob(s) = job /\ Active(s).state = "SCHEDJOB_BUSY" THEN Ret(s, FALSE)
    ELSE startJob(shouldSchedulerSleep(setActiveJob(s, job), job, e), job)

(***************************************************************************)
(* GreedyScheduler::scheduleJobs.  e.plan[j] is what the constraints give  *)
(* for job j: -1 no feasible window, d >= 0 a start window d seconds from  *)
(* now, -2 nothing left to capture (the captured frames cover the job).    *)
(* Jobs that are BUSY, COMPLETE, ERROR, ABORTED or INVALID are left  *)
(* alone; a repeat job without repeats left and a job past its fixed       *)
(* completion time are complete; every other job is SCHEDULED or INVALID.  *)
(* The scheduled job is the feasible job that starts first.                *)
(***************************************************************************)
MaxDelay == 1

Plans == [JobIds -> -2..MaxDelay]

Evaluated(job) == job.present /\ job.state \in {"SCHEDJOB_IDLE", "SCHEDJOB_EVALUATION", "SCHEDJOB_SCHEDULED"}

NothingLeft(s, job) ==
    \/ job.completionCondition = "FINISH_REPEAT" /\ job.repeatsRemaining = 0
    \/ job.completionCondition = "FINISH_AT" /\ job.completionTime < s.now

\* a pass that counts the window of a job already scheduled from its last start
scheduleOneDrifting(s, job, d) ==
    IF ~Evaluated(job) THEN job
    ELSE IF NothingLeft(s, job) THEN [job EXCEPT !.state = "SCHEDJOB_COMPLETE"]
    ELSE IF d < 0 THEN [job EXCEPT !.state = "SCHEDJOB_INVALID"]
    ELSE [job EXCEPT !.state = "SCHEDJOB_SCHEDULED",
                     !.startupTime = IF job.state = "SCHEDJOB_SCHEDULED" THEN @ + d ELSE s.now + d]

scheduleOne(s, job, d) ==
    IF ~Evaluated(job) THEN job
    ELSE IF NothingLeft(s, job) THEN [job EXCEPT !.state = "SCHEDJOB_COMPLETE"]
    ELSE IF d = -2 /\ s.options.rememberJobProgress
            /\ job.completionCondition \in {"FINISH_SEQUENCE", "FINISH_REPEAT"}
         THEN [job EXCEPT !.state = "SCHEDJOB_COMPLETE",
                          !.repeatsRemaining = IF job.completionCondition = "FINISH_REPEAT" THEN 0 ELSE @]
    ELSE IF d < 0 THEN [job EXCEPT !.state = "SCHEDJOB_INVALID"]
    ELSE [job EXCEPT !.state = "SCHEDJOB_SCHEDULED", !.startupTime = s.now + d]

Better(js, a, b) ==
    \/ js[a].startupTime < js[b].startupTime
    \/ js[a].startupTime = js[b].startupTime /\ a <= b

firstOf(js, cand) == IF cand = {} THEN NoJob ELSE CHOOSE a \in cand : \A b \in cand : Better(js, a, b)

setSchedule(s, js) ==
    [s EXCEPT !.jobs = js,
              !.greedy = firstOf(js, {j \in JobIds : Evaluated(s.jobs[j]) /\ js[j].state = "SCHEDJOB_SCHEDULED"})]

scheduleJobs(s, e) == setSchedule(s, [j \in JobIds |-> scheduleOne(s, s.jobs[j], e.plan[j])])

(***************************************************************************)
(* Scheduler::selectActiveJob and Scheduler::evaluateJobs.                 *)
(***************************************************************************)
\* a selection that requeues the aborted jobs whatever the strategy
selectActiveJobRequeueAlways(s) ==
    LET P == PresentJobs(s)
        st(j) == s.jobs[j].state
    IN  IF P = {} \/ \A j \in P : st(j) # "SCHEDJOB_SCHEDULED" /\ st(j) # "SCHEDJOB_ABORTED"
        THEN setActiveJob(Emit(s, "log.noJobsLeft"), NoJob)
        ELSE IF \A j \in P : StatusRank("SCHEDJOB_ERROR") <= StatusRank(st(j)) \/ st(j) = "SCHEDJOB_ABORTED"
        THEN [Emit(s, "log.onlyAbortedJobsLeft") EXCEPT
                 !.jobs = [j \in JobIds |->
                             IF j \in P /\ st(j) = "SCHEDJOB_ABORTED"
                             THEN [s.jobs[j] EXCEPT !.state = "SCHEDJOB_EVALUATION"]
                             ELSE s.jobs[j]]]
        ELSE IF s.greedy = NoJob THEN setActiveJob(Emit(s, "log.noJobsScheduled"), NoJob)
        ELSE setActiveJob(Emit(s, "selectActiveJob.scheduled"), s.greedy)

\* a selection that leaves the aborted jobs as they are
selectActiveJobNoRequeue(s) ==
    LET P == PresentJobs(s)
        st(j) == s.jobs[j].state
    IN  IF P = {} \/ \A j \in P : st(j) # "SCHEDJOB_SCHEDULED" /\ st(j) # "SCHEDJOB_ABORTED"
        THEN setActiveJob(Emit(s, "log.noJobsLeft"), NoJob)
        ELSE IF /\ \A j \in P : StatusRank("SCHEDJOB_ERROR") <= StatusRank(st(j)) \/ st(j) = "SCHEDJOB_ABORTED"
                /\ s.options.errorHandling # "DONT"
        THEN Emit(s, "log.onlyAbortedJobsLeft")
        ELSE IF s.greedy = NoJob THEN setActiveJob(Emit(s, "log.noJobsScheduled"), NoJob)
        ELSE setActiveJob(Emit(s, "selectActiveJob.scheduled"), s.greedy)

selectActiveJob(s) ==
    LET P == PresentJobs(s)
        st(j) == s.jobs[j].state
    IN  IF P = {} \/ \A j \in P : st(j) # "SCHEDJOB_SCHEDULED" /\ st(j) # "SCHEDJOB_ABORTED"
        THEN setActiveJob(Emit(s, "log.noJobsLeft"), NoJob)
        ELSE IF /\ \A j \in P : StatusRank("SCHEDJOB_ERROR") <= StatusRank(st(j)) \/ st(j) = "SCHEDJOB_ABORTED"
                /\ s.options.errorHandling # "DONT"
        THEN [Emit(s, "log.onlyAbortedJobsLeft") EXCEPT
                 !.jobs = [j \in JobIds |->
                             IF j \in P /\ st(j) = "SCHEDJOB_ABORTED"
                             THEN [s.jobs[j] EXCEPT !.state = "SCHEDJOB_EVALUATION"]
                             ELSE s.jobs[j]]]
        ELSE IF s.greedy = NoJob THEN setActiveJob(Emit(s, "log.noJobsScheduled"), NoJob)
        ELSE setActiveJob(Emit(s, "selectActiveJob.scheduled"), s.greedy)

(***************************************************************************)
(* Scheduler::updateCompletedJobsCount.  e.files[sig] is the answer of     *)
(* PlaceholderPath::getCompletedFiles(sig); a job whose sequence file      *)
(* does not load is INVALID.                                               *)
(***************************************************************************)
NoFrames == [sig \in Signatures |-> NoCount]

\* the signatures of the sequence jobs stored on the client side
ClientSignatures(job) == {sj.signature : sj \in {x \in job.seqjobs : ~x.uploadLocal}}

\* SchedulerUtils::updateLightFramesRequired: a job that ends with its
\* sequence needs light frames while a sequence job has fewer frames stored
\* than the job captures
updateLightFramesRequired(job, count) ==
    [job EXCEPT !.lightFramesRequired =
        IF job.completionCondition \in {"FINISH_SEQUENCE", "FINISH_REPEAT"}
        THEN \E sj \in job.seqjobs :
                (IF count[sj.signature] = NoCount THEN 0 ELSE count[sj.signature]) < job.repeatsRequired
        ELSE TRUE]

\* the count of the signatures of one job: kept if processed in this run,
\* else taken from the earlier run, else counted again
countOne(job, new, old, files) ==
    [sig \in Signatures |->
        IF new[sig] # NoCount THEN new[sig]
        ELSE IF sig \notin ClientSignatures(job) THEN NoCount
        ELSE IF old[sig] # NoCount THEN old[sig]
        ELSE files[sig]]

countJob(r, j, new) ==
    [jobs |-> [r.jobs EXCEPT ![j] = updateLightFramesRequired(r.jobs[j], new)], new |-> new]

\* the loop over the jobs, from job j on
RECURSIVE countJobs(_, _, _, _)
countJobs(r, old, files, j) ==
    IF j > NJobs THEN r
    ELSE IF ~r.jobs[j].present THEN countJobs(r, old, files, j + 1)
    ELSE IF ~r.jobs[j].loads
         THEN countJobs([r EXCEPT !.jobs[j].state = "SCHEDJOB_INVALID"], old, files, j + 1)
    ELSE countJobs(countJob(r, j, countOne(r.jobs[j], r.new, old, files)), old, files, j + 1)

setCapturedFramesCount(s, r) ==
    [Emit(s, "setCapturedFramesCount") EXCEPT !.jobs = r.jobs, !.frames = r.new]

\* a refresh that forgets nothing: the counts of the earlier run are kept
updateCompletedJobsCountKept(s, forced, e) ==
    setCapturedFramesCount(s, countJobs([jobs |-> s.jobs, new |-> s.frames], s.frames, e.files, 1))

updateCompletedJobsCount(s, forced, e) ==
    LET refresh == forced \/ \E j \in PresentJobs(s) :
                                    s.jobs[j].state \in {"SCHEDJOB_IDLE", "SCHEDJOB_EVALUATION"}
    IN  setCapturedFramesCount(s, countJobs([jobs |-> s.jobs, new |-> NoFrames],
                                            IF refresh THEN NoFrames ELSE s.frames, e.files, 1))

\* evaluateJobs refreshes the captured frames only if the progress is remembered
refreshIfRemembered(s, e) ==
    IF s.options.rememberJobProgress
    THEN updateCompletedJobsCount(Emit(s, "updateCompletedJobsCount"), FALSE, e)
    ELSE s

\* an evaluation that does not look at the length of the list
evaluateJobsAlways(s, evaluateOnly, e) ==
    IF ~evaluateOnly /\ s.ms.schedulerState = "SCHEDULER_RUNNING"
    THEN selectActiveJob(scheduleJobs(Emit(refreshIfRemembered(s, e), "scheduleJobs"), e))
    ELSE scheduleJobs(Emit(refreshIfRemembered(s, e), "scheduleJobs"), e)

evaluateJobs(s, evaluateOnly, e) ==
    IF PresentJobs(s) = {} THEN s
    ELSE IF ~evaluateOnly /\ s.ms.schedulerState = "SCHEDULER_RUNNING"
         THEN selectActiveJob(scheduleJobs(Emit(refreshIfRemembered(s, e), "scheduleJobs"), e))
         ELSE scheduleJobs(Emit(refreshIfRemembered(s, e), "scheduleJobs"), e)

(***************************************************************************)
(* Scheduler::setPaused and Scheduler::pause.                              *)
(***************************************************************************)
setPaused(s) == setupNextIteration(Log(s, "log.paused"), "RUN_NOTHING")

pause(s) == [Log(s, "log.pausePlanned") EXCEPT !.ms.schedulerState = "SCHEDULER_PAUSED"]

(***************************************************************************)
(* Scheduler::canCountCaptures: the sequence file loads and no sequence    *)
(* job uploads locally (a property of the job's sequence file).            *)
(***************************************************************************)
canCountCaptures(job) == job.loads /\ \A sj \in job.seqjobs : ~sj.uploadLocal

(***************************************************************************)
(* Scheduler::findNextJob.                                                 *)
(***************************************************************************)
resetCaptureBatch(s) == [s EXCEPT !.ms.captureBatch = 0]

increaseCaptureBatch(s) == [s EXCEPT !.ms.captureBatch = @ + 1]

\* only the active job becomes IDLE
markIdleActiveOnly(s) == setState(s, "SCHEDJOB_IDLE")

\* foreach job: the active job and its duplicates become IDLE
markIdle(s) ==
    [s EXCEPT !.jobs = [j \in JobIds |->
        IF s.jobs[j].present /\ (j = activeJob(s) \/ isDuplicateOf(s, j, activeJob(s)))
        THEN [s.jobs[j] EXCEPT !.state = "SCHEDJOB_IDLE"]
        ELSE s.jobs[j]]]

\* a repeat that is not counted
countRepeatForgotten(s) == [s EXCEPT !.jobs[activeJob(s)].startupTime = InvalidTime]

\* the repeat bookkeeping done when progress is not remembered
countRepeat(s) ==
    LET a == activeJob(s)
        s1 == IF ~s.options.rememberJobProgress
              THEN [s EXCEPT !.jobs[a].repeatsRemaining = @ - 1,
                             !.jobs[a].completedIterations = @ + 1]
              ELSE s
    IN  [s1 EXCEPT !.jobs[a].startupTime = InvalidTime]

forceAlign(s) == Uses(s, "USE_ALIGN") /\ s.options.forceAlignmentBeforeJob

\* restart of the pipeline of a repeating job after its last-but-one batch
restartRepeat(s) ==
    IF forceAlign(s) THEN startAstrometry(updateJobStage(stopGuiding(s), "SCHEDSTAGE_ALIGNING"))
    ELSE IF Uses(s, "USE_GUIDE") THEN startCapture(updateJobStage(s, "SCHEDSTAGE_CAPTURING"))
    ELSE IF Uses(s, "USE_ALIGN") THEN startAstrometry(updateJobStage(s, "SCHEDSTAGE_ALIGNING"))
    ELSE IF Uses(s, "USE_TRACK") THEN startSlew(updateJobStage(s, "SCHEDSTAGE_SLEWING"))
    ELSE startCapture(updateJobStage(s, "SCHEDSTAGE_CAPTURING"))

\* restart of a looping, repeating or until-time job
restartBatch(s) ==
    increaseCaptureBatch(
        IF forceAlign(s) THEN startAstrometry(updateJobStage(stopGuiding(s), "SCHEDSTAGE_ALIGNING"))
        ELSE startCapture(updateJobStage(s, "SCHEDSTAGE_CAPTURING")))

completeIfUncountable(s) ==
    IF ~canCountCaptures(Active(s)) THEN setState(s, "SCHEDJOB_COMPLETE") ELSE s

\* a failed job that is released whatever the error handling strategy
findNextJobFailedReleased(s) ==
    setupNextIteration(
        setActiveJob(updateJobStage(Emit(stopGuiding(resetCaptureBatch(s)),
                                         IF Active(s).state = "SCHEDJOB_ERROR" THEN "log.jobError"
                                         ELSE "log.jobAborted"),
                                    "SCHEDSTAGE_IDLE"), NoJob),
        "RUN_SCHEDULER")

findNextJobFailed(s) ==
    LET st == Active(s).state
        s1 == updateJobStage(Emit(stopGuiding(resetCaptureBatch(Emit(s, "jobEnded"))),
                                  IF st = "SCHEDJOB_ERROR" THEN "log.jobError" ELSE "log.jobAborted"),
                             "SCHEDSTAGE_IDLE")
    IN  IF /\ s.options.errorHandling = "IMMEDIATE"
           /\ (st = "SCHEDJOB_ABORTED" \/ (st = "SCHEDJOB_ERROR" /\ s.options.rescheduleErrors))
        THEN setupNextIterationMs(Log(setState(s1, "SCHEDJOB_SCHEDULED"), "log.waitingToRestart"),
                                  "RUN_WAKEUP", s.options.errorDelay * 1000)
        ELSE setupNextIteration(setActiveJob(s1, NoJob), "RUN_SCHEDULER")

findNextJobSequence(s) ==
    LET s1 == IF s.options.rememberJobProgress THEN markIdle(Emit(s, "jobEnded")) ELSE Emit(s, "jobEnded")
        s2 == updateJobStage(stopGuiding(resetCaptureBatch(s1)), "SCHEDSTAGE_IDLE")
    IN  setupNextIteration(setActiveJob(completeIfUncountable(Log(s2, "log.jobComplete")), NoJob), "RUN_SCHEDULER")

\* the job is released: it is complete now if its captures cannot be counted
releaseJob(s) ==
    IF activeJob(s) # NoJob
    THEN setActiveJob(completeIfUncountable(Emit(s, "jobEnded")), NoJob)
    ELSE s

\* x is the result of executeJob: the pipeline is restarted if the job started
repeatIfStarted(x) ==
    IF ~x.r THEN x.s
    ELSE setupNextIteration(Log(restartRepeat(x.s), "log.repeating"), "RUN_JOBCHECK")

batchIfStarted(x) ==
    IF ~x.r THEN x.s
    ELSE setupNextIteration(Log(restartBatch(x.s), "log.repeating"), "RUN_JOBCHECK")

\* after the re-evaluation of the last repeat
lastRepeatEnd(s, e) ==
    IF activeJob(s) = NoJob \/ Active(s).repeatsRemaining = 0
    THEN setupNextIteration(releaseJob(stopCurrentJobAction(s)), "RUN_SCHEDULER")
    ELSE repeatIfStarted(executeJob(s, activeJob(s), e))

findNextJobLastRepeat(s, e) ==
    lastRepeatEnd(evaluateJobs(markIdle(IF Active(s).repeatsRemaining > 0 THEN countRepeat(s) ELSE s), TRUE, e), e)

\* a looping job that ends like a sequence job
findNextJobRepeatOnce(s, e) == findNextJobSequence(s)

findNextJobRepeat(s, e) ==
    batchIfStarted(executeJob(IF Active(s).completionCondition = "FINISH_REPEAT" /\ Active(s).repeatsRemaining > 1
                              THEN countRepeat(s) ELSE s,
                              activeJob(s), e))

\* the end of a job that runs until a fixed time
endAt(s) == setupNextIteration(setActiveJob(updateJobStage(resetCaptureBatch(s), "SCHEDSTAGE_IDLE"), NoJob),
                               "RUN_SCHEDULER")

\* a job that ends at its first batch whatever the time
findNextJobAtOnce(s, e) == endAt(stopCurrentJobAction(markIdle(Emit(s, "jobEnded"))))

findNextJobAt(s, e) ==
    IF secsTo(s.now, Active(s).completionTime) <= 0
    THEN endAt(stopCurrentJobAction(markIdle(Emit(s, "jobEnded"))))
    ELSE batchIfStarted(executeJob(s, activeJob(s), e))

findNextJobUnexpected(s) ==
    setupNextIteration(setActiveJob(updateJobStage(Emit(s, "log.BUGBUG"), "SCHEDSTAGE_IDLE"), NoJob),
                       "RUN_SCHEDULER")

\* the end of a job without the branch of the jobs that run until a fixed time
endJobWithoutAt(s, e) ==
    LET st == Active(s).state
        cc == Active(s).completionCondition
        rr == Active(s).repeatsRemaining
    IN  IF st \in {"SCHEDJOB_ERROR", "SCHEDJOB_ABORTED"} THEN findNextJobFailed(s)
        ELSE IF st = "SCHEDJOB_IDLE"
             THEN setupNextIteration(setActiveJob(Emit(s, "jobEnded"), NoJob), "RUN_SCHEDULER")
        ELSE IF cc = "FINISH_SEQUENCE" THEN findNextJobSequence(s)
        ELSE IF cc = "FINISH_REPEAT" /\ rr <= 1 THEN findNextJobLastRepeat(s, e)
        ELSE IF cc = "FINISH_LOOP" \/ (cc = "FINISH_REPEAT" /\ rr > 0) THEN findNextJobRepeat(s, e)
        ELSE findNextJobUnexpected(s)

\* findNextJob after the failure counters are reset: what to do by the state
\* and the completion condition of the job
endJob(s, e) ==
    LET st == Active(s).state
        cc == Active(s).completionCondition
        rr == Active(s).repeatsRemaining
    IN  IF st \in {"SCHEDJOB_ERROR", "SCHEDJOB_ABORTED"} THEN findNextJobFailed(s)
        ELSE IF st = "SCHEDJOB_IDLE"
             THEN setupNextIteration(setActiveJob(Emit(s, "jobEnded"), NoJob), "RUN_SCHEDULER")
        ELSE IF cc = "FINISH_SEQUENCE" THEN findNextJobSequence(s)
        ELSE IF cc = "FINISH_REPEAT" /\ rr <= 1 THEN findNextJobLastRepeat(s, e)
        ELSE IF cc = "FINISH_LOOP" \/ (cc = "FINISH_REPEAT" /\ rr > 0) THEN findNextJobRepeat(s, e)
        ELSE IF cc = "FINISH_AT" THEN findNextJobAt(s, e)
        ELSE findNextJobUnexpected(s)

\* the statuses that the assertion of findNextJob accepts
EndStates == {"SCHEDJOB_ERROR", "SCHEDJOB_ABORTED", "SCHEDJOB_IDLE", "SCHEDJOB_COMPLETE"}

\* Q_ASSERT_X at the top of findNextJob
asserted(s) ==
    IF activeJob(s) = NoJob THEN FALSE ELSE Active(s).state \in EndStates

findNextJob(s, e) ==
    IF s.ms.schedulerState = "SCHEDULER_PAUSED" THEN setPaused(Emit(s, "findNextJob"))
    ELSE IF ~asserted(s) THEN Emit(s, "findNextJob.assert")
    ELSE endJob(resetFailureCounters(Emit(s, "findNextJob")), e)

(***************************************************************************)
(* Scheduler::resetJobs (SchedulerJob::reset on every job).                *)
(***************************************************************************)
resetJobs(s, e) ==
    updateCompletedJobsCount(
    [setActiveJob(s, NoJob) EXCEPT
        !.jobs = [j \in JobIds |->
                    IF s.jobs[j].present
                    THEN [s.jobs[j] EXCEPT !.state = "SCHEDJOB_IDLE", !.stage = "SCHEDSTAGE_IDLE",
                                           !.startupTime = InvalidTime,
                                           !.repeatsRemaining = s.jobs[j].repeatsRequired,
                                           !.completedIterations = 0]
                    ELSE s.jobs[j]]],
    TRUE, e)

\* Scheduler::checkRepeatSequence
checkRepeatSequence(s) ==
    /\ ~s.options.rememberJobProgress
    /\ s.options.repeatSequence
    /\ s.ms.sequenceExecutionCounter < s.options.executionSequenceLimit

(***************************************************************************)
(* Scheduler::execute and Scheduler::wakeUpScheduler.                      *)
(***************************************************************************)
UrlRejected(url) == url # "EMPTY" /\ url # "VALID"

execute(s) ==
    CASE s.ms.schedulerState = "SCHEDULER_IDLE" ->
            IF UrlRejected(s.options.startupScriptURL) THEN Log(s, "log.startupScriptInvalid")
            ELSE IF UrlRejected(s.options.shutdownScriptURL) THEN Log(s, "log.shutdownScriptInvalid")
            ELSE setupNextIteration([Log(s, "log.started") EXCEPT !.ms.schedulerState = "SCHEDULER_RUNNING"],
                                    "RUN_SCHEDULER")
      [] s.ms.schedulerState = "SCHEDULER_PAUSED" ->
            setupNextIteration([Log(s, "log.resuming") EXCEPT !.ms.schedulerState = "SCHEDULER_RUNNING"],
                               "RUN_SCHEDULER")
      [] OTHER -> s

\* SchedulerModuleState::disablePreemptiveShutdown
disablePreemptiveShutdown(s) == [s EXCEPT !.ms.preemptiveShutdown = FALSE, !.ms.wakeupTime = InvalidTime]

wakeUpScheduler(s) ==
    IF s.ms.preemptiveShutdown
    THEN execute(disablePreemptiveShutdown(Signal(s, "wakeUpScheduler")))
    ELSE setupNextIteration(Signal(s, "wakeUpScheduler"), "RUN_SCHEDULER")

(***************************************************************************)
(* Scheduler::checkStatus.                                                 *)
(***************************************************************************)
\* a scheduler that waits when nothing is left to run
waitIfNoJob(s, e) == Ret(s, activeJob(s) # NoJob)

shutdownIfNoJob(s, e) ==
    IF activeJob(s) = NoJob THEN Ret(checkShutdownState(s, e).s, FALSE) ELSE Ret(s, TRUE)

\* #2.5, after the jobs are reset and evaluated again
afterRepeat(s, e) ==
    IF activeJob(s) # NoJob THEN Ret([s EXCEPT !.ms.sequenceExecutionCounter = @ + 1], TRUE)
    ELSE shutdownIfNoJob(s, e)

\* #2.5 and #2.6, after the jobs are evaluated
afterEvaluation(s, e) ==
    IF activeJob(s) = NoJob /\ checkRepeatSequence(s)
    THEN afterRepeat(evaluateJobs(resetJobs(s, e), FALSE, e), e)
    ELSE shutdownIfNoJob(s, e)

\* #2.3 and #2.4; pw is the result of checkParkWaitState
afterParkWait(pw, e) ==
    IF ~pw.r THEN Ret(pw.s, FALSE) ELSE afterEvaluation(evaluateJobs(pw.s, FALSE, e), e)

checkStatusNoJob(s, e) ==
    IF s.ms.shutdownState \in {"SHUTDOWN_COMPLETE", "SHUTDOWN_ERROR"} THEN completeShutdown(s)
    ELSE IF s.ms.shutdownState # "SHUTDOWN_IDLE" THEN Ret(checkShutdownState(s, e).s, FALSE)
    ELSE afterParkWait(checkParkWaitState(s, e), e)

\* #8 and the execution of the job
runJob(s, e) == Ret(executeJob(s, activeJob(s), e).s, TRUE)

\* #8; c is the result of #7
afterUnpark(c, e) ==
    IF ~c.r THEN Ret(c.s, FALSE)
    ELSE runJob(IF activeJob(c.s) # NoJob /\ Active(c.s).state = "SCHEDJOB_COMPLETE"
                THEN findNextJob(c.s, e) ELSE c.s, e)

\* #7; c is the result of #6.1
afterParkWaitJob(c, e) ==
    IF ~c.r THEN Ret(c.s, FALSE)
    ELSE afterUnpark(IF c.s.ms.startupState \in {"STARTUP_UNPARK_DOME", "STARTUP_UNPARK_MOUNT", "STARTUP_UNPARK_CAP"}
                     THEN checkStartupState(c.s, e) ELSE Ret(c.s, TRUE), e)

\* #6.1; c is the result of #6
afterINDI(c, e) == IF ~c.r THEN Ret(c.s, FALSE) ELSE afterParkWaitJob(checkParkWaitState(c.s, e), e)

\* #6; c is the result of #5
afterEkos(c, e) == IF ~c.r THEN Ret(c.s, FALSE) ELSE afterINDI(checkINDIState(c.s, e), e)

\* #5; c is the result of #4
afterStartupScript(c, e) ==
    IF ~c.r \/ c.s.ms.startupState = "STARTUP_SCRIPT" THEN Ret(c.s, FALSE)
    ELSE afterEkos(checkEkosState(c.s, e), e)

\* #3 and #4; sl is the result of shouldSchedulerSleep
afterSleep(sl, e) ==
    IF sl.r THEN Ret(sl.s, TRUE)
    ELSE IF sl.s.ms.startupState = "STARTUP_ERROR" THEN Ret(stop(sl.s), TRUE)
    ELSE afterStartupScript(IF sl.s.ms.startupState = "STARTUP_IDLE"
                            THEN checkStartupState(sl.s, e) ELSE Ret(sl.s, TRUE), e)

checkStatusJob(s, e) == afterSleep(shouldSchedulerSleep(s, activeJob(s), e), e)

\* after the pause is handled
checkStatusRunning(s, e) == IF activeJob(s) = NoJob THEN checkStatusNoJob(s, e) ELSE checkStatusJob(s, e)

checkStatus(s, e) ==
    IF s.ms.schedulerState = "SCHEDULER_PAUSED" /\ activeJob(s) = NoJob THEN Ret(setPaused(s), FALSE)
    ELSE checkStatusRunning(IF /\ s.ms.schedulerState = "SCHEDULER_PAUSED"
                               /\ Active(s).state \notin {"SCHEDJOB_BUSY", "SCHEDJOB_COMPLETE"}
                            THEN setPaused(s) ELSE s, e)

(***************************************************************************)
(* The status callbacks.  setCaptureStatus is Scheduler's own; the mount,  *)
(* align, focus and guide callbacks are delegated to SchedulerProcess: a   *)
(* completed phase moves the job to the _COMPLETE stage and the next       *)
(* action is computed, a failed phase is retried while the failure count   *)
(* allows it.                                                              *)
(***************************************************************************)
\* attempts without a maximum
withinAttemptsAlways(count) == TRUE

withinAttempts(count) == count <= MaxFailureAttempts

\* the job is given up without a status
abortJobUnmarked(s, e, why) == findNextJob(Log(s, why), e)

abortJob(s, e, why) == findNextJob(setState(Log(s, why), "SCHEDJOB_ABORTED"), e)

\* the job is scheduled and has not started yet
notStartedYet(s) ==
    /\ Active(s).state = "SCHEDJOB_SCHEDULED"
    /\ Active(s).startupTime # InvalidTime
    /\ s.now < Active(s).startupTime

\* a new image: the storage map is refreshed if the progress is remembered
imageReceived(s, e) ==
    IF s.options.rememberJobProgress THEN updateCompletedJobsCount(s, TRUE, e) ELSE s

\* the capture status of a job in the stage CAPTURING
captureStatusInStage(s, status, e) ==
    IF status = "CAPTURE_PROGRESS" /\ Uses(s, "USE_ALIGN") THEN Signal(s, "align.setTargetCoords")
    ELSE IF status = "CAPTURE_ABORTED"
         THEN LET s1 == increaseCaptureFailureCount(Log(s, "log.captureFailed")) IN
              IF withinAttempts(s1.ms.captureFailureCount)
              THEN IF Uses(s1, "USE_GUIDE") /\ e.guideError THEN startGuiding(s1)
                   ELSE startCapture(s1)
              ELSE abortJob(s1, e, "log.captureAborted")
    ELSE IF status = "CAPTURE_COMPLETE"
         THEN findNextJob(setState(Emit(s, "notify.CaptureFinished"), "SCHEDJOB_COMPLETE"), e)
    ELSE IF status = "CAPTURE_IMAGE_RECEIVED"
         THEN imageReceived([s EXCEPT !.ms.captureFailureCount = 0], e)
    ELSE s

\* a capture status that is processed in every stage
setCaptureStatusInAnyStage(s, status, e) ==
    IF activeJob(s) = NoJob THEN s
    ELSE IF notStartedYet(s) THEN s
    ELSE captureStatusInStage(s, status, e)

setCaptureStatus(s, status, e) ==
    IF activeJob(s) = NoJob THEN s
    ELSE IF notStartedYet(s) THEN s
    ELSE IF Active(s).stage # "SCHEDSTAGE_CAPTURING" THEN s
    ELSE captureStatusInStage(s, status, e)

setMountStatus(s, status, e) ==
    IF activeJob(s) = NoJob \/ notStartedYet(s) THEN s
    ELSE IF Active(s).stage \in {"SCHEDSTAGE_SLEWING", "SCHEDSTAGE_RESLEWING"}
         THEN IF status = "DONE"
              THEN updateJobStage(s, IF Active(s).stage = "SCHEDSTAGE_SLEWING"
                                     THEN "SCHEDSTAGE_SLEW_COMPLETE" ELSE "SCHEDSTAGE_RESLEWING_COMPLETE")
              ELSE IF status = "ERROR"
              THEN findNextJob(setState(Log(s, "log.slewFailed"), "SCHEDJOB_ERROR"), e)
              ELSE IF status = "IDLE" /\ Active(s).stage = "SCHEDSTAGE_SLEWING"
              THEN getNextAction(updateJobStage(s, "SCHEDSTAGE_IDLE"), e)
              ELSE s
    ELSE s

setAlignStatus(s, status, e) ==
    IF activeJob(s) = NoJob \/ notStartedYet(s) THEN s
    ELSE IF Active(s).stage # "SCHEDSTAGE_ALIGNING" THEN s
    ELSE IF status = "DONE" THEN getNextAction(updateJobStage(s, "SCHEDSTAGE_ALIGN_COMPLETE"), e)
    ELSE IF status = "ERROR"
         THEN LET s1 == increaseAlignFailureCount(s) IN
              IF withinAttempts(s1.ms.alignFailureCount) THEN startAstrometry(s1)
              ELSE abortJob(s1, e, "log.alignAborted")
    ELSE s

setFocusStatus(s, status, e) ==
    IF activeJob(s) = NoJob \/ notStartedYet(s) THEN s
    ELSE IF Active(s).stage \notin {"SCHEDSTAGE_FOCUSING", "SCHEDSTAGE_POSTALIGN_FOCUSING"} THEN s
    ELSE IF status = "DONE"
         THEN getNextAction(updateJobStage([s EXCEPT !.ms.autofocusCompleted = TRUE],
                                           IF Active(s).stage = "SCHEDSTAGE_FOCUSING"
                                           THEN "SCHEDSTAGE_FOCUS_COMPLETE"
                                           ELSE "SCHEDSTAGE_POSTALIGN_FOCUSING_COMPLETE"), e)
    ELSE IF status = "ERROR"
         THEN LET s1 == increaseFocusFailureCount(s) IN
              IF withinAttempts(s1.ms.focusFailureCount) THEN startFocusing(s1)
              ELSE abortJob(s1, e, "log.focusAborted")
    ELSE s

setGuideStatus(s, status, e) ==
    IF activeJob(s) = NoJob \/ notStartedYet(s) THEN s
    ELSE IF Active(s).stage # "SCHEDSTAGE_GUIDING" THEN s
    ELSE IF status = "DONE" THEN getNextAction(updateJobStage(s, "SCHEDSTAGE_GUIDING_COMPLETE"), e)
    ELSE IF status = "ERROR"
         THEN LET s1 == increaseGuideFailureCount(s) IN
              IF withinAttempts(s1.ms.guideFailureCount) THEN startGuiding(s1)
              ELSE abortJob(s1, e, "log.guideAborted")
    ELSE s

(***************************************************************************)
(* Scheduler::checkJobStageEplogue.  e.poll is the value of the status     *)
(* property of the subsystem of the stage, "INVALID" when the property     *)
(* cannot be read; e.opTimeout tells whether the current operation timer   *)
(* is past the inactivity timeout of the stage.                            *)
(***************************************************************************)
(***************************************************************************)
(* Scheduler::setWeatherStatus.                                            *)
(***************************************************************************)
WeatherStatuses == {"WEATHER_IDLE", "WEATHER_OK", "WEATHER_WARNING", "WEATHER_ALERT"}

\* the active job is aborted and its action stopped
abortForWeather(s) ==
    IF activeJob(s) # NoJob THEN stopCurrentJobAction(setState(s, "SCHEDJOB_ABORTED")) ELSE s

setWeatherStatus(s, status, e) ==
    LET s1 == IF status # s.ms.weatherStatus
              THEN Signal([s EXCEPT !.ms.weatherStatus = status], "weatherChanged")
              ELSE s
    IN  IF /\ s1.options.enforceWeather
           /\ s1.ms.weatherStatus = "WEATHER_ALERT"
           /\ s1.ms.schedulerState # "SCHEDULER_IDLE"
           /\ s1.ms.schedulerState # "SCHEDULER_SHUTDOWN"
        THEN checkShutdownState(abortForWeather(Emit(s1, "log.weatherShutdown")), e).s
        ELSE s1

PollValues == {"INVALID", "IDLE", "ACTIVE", "DONE", "ERROR"}

\* QVariant::toInt() of an invalid variant is 0, the IDLE value of the
\* align, capture, focus and guide state enumerations
toInt(poll) == IF poll = "INVALID" THEN "IDLE" ELSE poll

\* the read of a status property; an invalid value is recorded in out
property(s, e) == IF e.poll = "INVALID" THEN Emit(s, "property.invalid") ELSE s

\* SchedulerProcess::manageConnectionLoss: one reconnection attempt
manageConnectionLoss(s, e) ==
    Ret(IF e.reconnect THEN Emit(s, "manageConnectionLoss")
        ELSE Emit(Emit(s, "manageConnectionLoss"), "manageConnectionLoss.failed"), e.reconnect)

connectionLost(s, e, what) ==
    LET m == manageConnectionLoss(Log(s, what), e) IN
    IF ~m.r THEN setState(m.s, "SCHEDJOB_ERROR") ELSE m.s

checkAligning(s, e) ==
    IF ~e.opTimeout THEN s
    ELSE IF toInt(e.poll) = "IDLE"
         THEN LET s1 == increaseAlignFailureCount(Emit(property(s, e), "watchdog.align")) IN
              IF withinAttempts(s1.ms.alignFailureCount) THEN startAstrometry(s1)
              ELSE abortJob(s1, e, "log.alignAborted")
    ELSE Signal(s, "startCurrentOperationTimer")

\* a watchdog that restarts the capture whatever the failure count
checkCapturingUnbounded(s, e) ==
    IF ~e.opTimeout THEN s
    ELSE IF toInt(e.poll) = "IDLE"
         THEN startCapture(increaseCaptureFailureCount(Emit(property(s, e), "watchdog.capture")))
    ELSE Signal(s, "startCurrentOperationTimer")

checkCapturing(s, e) ==
    IF ~e.opTimeout THEN s
    ELSE IF toInt(e.poll) = "IDLE"
         THEN LET s1 == increaseCaptureFailureCount(Emit(property(s, e), "watchdog.capture")) IN
              IF withinAttempts(s1.ms.captureFailureCount) THEN startCapture(s1)
              ELSE abortJob(s1, e, "log.captureAborted")
    ELSE Signal(s, "startCurrentOperationTimer")

checkFocusing(s, e) ==
    IF ~e.opTimeout THEN s
    ELSE IF toInt(e.poll) = "IDLE"
         THEN LET s1 == increaseFocusFailureCount(Emit(property(s, e), "watchdog.focus")) IN
              IF withinAttempts(s1.ms.focusFailureCount) THEN startFocusing(s1)
              ELSE abortJob(s1, e, "log.focusAborted")
    ELSE Signal(s, "startCurrentOperationTimer")

checkGuiding(s, e) ==
    IF ~e.opTimeout THEN s
    ELSE IF toInt(e.poll) = "IDLE"
         THEN LET s1 == increaseGuideFailureCount(Emit(s, "watchdog.guide")) IN
              IF withinAttempts(s1.ms.guideFailureCount) THEN startGuiding(s1)
              ELSE abortJob(s1, e, "log.guideAborted")
    ELSE Signal(s, "startCurrentOperationTimer")

checkSlewing(s, e) ==
    IF e.poll # "INVALID" THEN setMountStatus(s, e.poll, e)
    ELSE connectionLost(property(s, e), e, "log.lostMount")

checkSlewComplete(s, e) ==
    IF s.ms.domeReady
    THEN IF e.poll = "INVALID" THEN connectionLost(property(s, e), e, "log.lostDome")
         ELSE IF e.poll # "ACTIVE" THEN getNextAction(s, e)
         ELSE s
    ELSE getNextAction(s, e)

\* #6: the check of the stage of the active job
checkStage(s, e) ==
    LET stage == Active(s).stage IN
    CASE stage = "SCHEDSTAGE_IDLE" -> getNextAction(Emit(s, "jobStarted"), e)
      [] stage = "SCHEDSTAGE_ALIGNING" -> checkAligning(s, e)
      [] stage = "SCHEDSTAGE_CAPTURING" -> checkCapturing(s, e)
      [] stage = "SCHEDSTAGE_FOCUSING" -> checkFocusing(s, e)
      [] stage = "SCHEDSTAGE_GUIDING" -> checkGuiding(s, e)
      [] stage \in {"SCHEDSTAGE_SLEWING", "SCHEDSTAGE_RESLEWING"} -> checkSlewing(s, e)
      [] stage \in {"SCHEDSTAGE_SLEW_COMPLETE", "SCHEDSTAGE_RESLEWING_COMPLETE"} -> checkSlewComplete(s, e)
      [] OTHER -> s

\* c is the result of checkStatus
afterStatus(c, e) == IF ~c.r \/ activeJob(c.s) = NoJob THEN c.s ELSE checkStage(c.s, e)

checkJobStageEplogue(s, e) ==
    IF activeJob(s) = NoJob THEN s ELSE afterStatus(checkStatus(s, e), e)

(***************************************************************************)
(* Scheduler::checkJobStage.  e.checkJob is GreedyScheduler::checkJob.     *)
(***************************************************************************)
\* a check that carries on with the stage of a job that failed it
checkJobStageCarriesOn(s, e) ==
    IF activeJob(s) = NoJob THEN s
    ELSE IF ~e.checkJob
         THEN checkJobStageEplogue(setState(Emit(s, "checkJob.false"), "SCHEDJOB_IDLE"), e)
    ELSE checkJobStageEplogue(s, e)

checkJobStage(s, e) ==
    IF activeJob(s) = NoJob THEN s
    ELSE IF ~e.checkJob
         THEN findNextJob(stopCurrentJobAction(setState(Emit(s, "checkJob.false"), "SCHEDJOB_IDLE")), e)
    ELSE checkJobStageEplogue(s, e)

(***************************************************************************)
(* Scheduler::runSchedulerIteration, iterate, init, start.  The result of  *)
(* runSchedulerIteration is the timer interval it leaves in the module     *)
(* state.  The handler that the iteration dispatches to is recorded in     *)
(* out, as "run.<handler>".                                                *)
(***************************************************************************)
dispatch(s, keepTimerState, e) ==
    CASE keepTimerState = "RUN_WAKEUP" -> wakeUpScheduler(Emit(s, "run.wakeUpScheduler"))
      [] keepTimerState = "RUN_SCHEDULER" -> checkStatus(Emit(s, "run.checkStatus"), e).s
      [] keepTimerState = "RUN_JOBCHECK" -> checkJobStage(Emit(s, "run.checkJobStage"), e)
      [] keepTimerState = "RUN_SHUTDOWN" -> checkShutdownState(Emit(s, "run.checkShutdownState"), e).s
      [] keepTimerState = "RUN_NOTHING" -> setTimerInterval(Emit(s, "run.nothing"), -1)

\* an iteration without the fallback
repeatIterationNever(s) == s

repeatIteration(s) ==
    IF ~s.ms.iterationSetup THEN setTimerInterval(s, UpdatePeriodMs) ELSE s

runSchedulerIteration(s, e) ==
    repeatIteration(dispatch(setIterationSetup(s, FALSE), s.ms.timerState, e))

\* the timer is single shot: it is not active while its slot runs, and it
\* is started again when the iteration returns a non-negative interval
rearm(s) == IF s.ms.timerInterval < 0 THEN s ELSE [s EXCEPT !.ms.timerActive = TRUE]

iterate(s, e) == rearm(runSchedulerIteration(s, e))

init(s) ==
    setupNextIterationMs(setIterationSetup([s EXCEPT !.ms.preemptiveShutdown = TRUE, !.ms.wakeupTime = s.now],
                                           FALSE),
                         "RUN_WAKEUP", 10)

\* a start that keeps the statuses of the previous session
startKeepingStatus(s, e) == iterate(init(Emit(s, "start")), e)

start(s, e) ==
    iterate(init([Emit(s, "start") EXCEPT !.jobs = [j \in JobIds |->
                                        IF s.jobs[j].present THEN [s.jobs[j] EXCEPT !.state = "SCHEDJOB_IDLE"]
                                        ELSE s.jobs[j]]]), e)

toggleScheduler(s, e) ==
    IF s.ms.schedulerState = "SCHEDULER_RUNNING"
    THEN stop(disablePreemptiveShutdown(s))
    ELSE start(s, e)

(***************************************************************************)
(* Queue edits: Scheduler::removeJob and Scheduler::startJobEvaluation.    *)
(***************************************************************************)
NoJobRecord ==
    [present |-> FALSE, state |-> "SCHEDJOB_IDLE", stage |-> "SCHEDSTAGE_IDLE", startupTime |-> InvalidTime,
     completionCondition |-> "FINISH_SEQUENCE", completionTime |-> InvalidTime,
     repeatsRequired |-> 1, repeatsRemaining |-> 1, completedIterations |-> 0,
     stepPipeline |-> {}, lightFramesRequired |-> TRUE, inSequenceFocus |-> FALSE,
     loads |-> TRUE, seqjobs |-> {}, sequence |-> 0]

removeJob(s, j, e) ==
    IF j = activeJob(s) THEN Log(s, "log.cannotDeleteRunning")
    ELSE IF activeJob(s) = NoJob /\ s.ms.schedulerState # "SCHEDULER_IDLE" THEN Log(s, "log.cannotDelete")
    ELSE evaluateJobs([s EXCEPT !.jobs[j] = NoJobRecord], TRUE, e)

startJobEvaluation(s, e) ==
    LET s1 == IF s.ms.schedulerState # "SCHEDULER_RUNNING" THEN resetJobs(s, e) ELSE s
    IN  evaluateJobs([s1 EXCEPT !.ms.sequenceExecutionCounter = 1], TRUE, e)

(***************************************************************************)
(* Scheduler::removeAllJobs, Scheduler::loadScheduler and Scheduler::load. *)
(* A file is the list of the jobs it holds, a slot of the queue is the     *)
(* identity of a job object; appendEkosScheduleList puts the jobs of the   *)
(* file into free slots and answers whether the file held a job.           *)
(***************************************************************************)
removeAllJobs(s) == [s EXCEPT !.jobs = [j \in JobIds |-> NoJobRecord]]

appendEkosScheduleList(s, file) ==
    Ret([s EXCEPT !.jobs = [j \in JobIds |-> IF s.jobs[j].present THEN s.jobs[j] ELSE file[j]]],
        \E j \in JobIds : file[j].present)

loadScheduler(s, file) == appendEkosScheduleList(removeAllJobs(Emit(s, "loadScheduler")), file).s

load(s, clearQueue, file, e) ==
    LET appended == appendEkosScheduleList(IF clearQueue THEN removeAllJobs(Emit(s, "load")) ELSE Emit(s, "load"), file)
    IN  IF appended.r THEN startJobEvaluation(appended.s, e) ELSE appended.s

(***************************************************************************)
(* The jobs and the options the scheduler is started with.                 *)
(***************************************************************************)
FullPipeline == {"USE_TRACK", "USE_FOCUS", "USE_ALIGN", "USE_GUIDE"}

CompletionTime == 2

NewJob(cc, n, pipeline, count, seq) ==
    [NoJobRecord EXCEPT !.present = TRUE, !.completionCondition = cc,
                        !.completionTime = IF cc = "FINISH_AT" THEN CompletionTime ELSE InvalidTime,
                        !.repeatsRequired = n, !.repeatsRemaining = n,
                        !.stepPipeline = pipeline, !.inSequenceFocus = "USE_FOCUS" \in pipeline,
                        !.seqjobs = {[signature |-> seq, uploadLocal |-> ~count]}, !.sequence = seq]

DefaultOptions ==
    [rememberJobProgress |-> FALSE, errorHandling |-> "DONT", rescheduleErrors |-> FALSE, errorDelay |-> 0,
     preemptiveShutdown |-> FALSE, preemptiveShutdownTime |-> 0, leadTime |-> 0,
     parkMount |-> FALSE, unparkMount |-> FALSE, forceAlignmentBeforeJob |-> FALSE,
     repeatSequence |-> FALSE, executionSequenceLimit |-> 2,
     startupScriptURL |-> "EMPTY", shutdownScriptURL |-> "EMPTY", enforceWeather |-> FALSE]

RememberProgress == [DefaultOptions EXCEPT !.rememberJobProgress = TRUE]

RestartImmediately ==
    [DefaultOptions EXCEPT !.errorHandling = "IMMEDIATE", !.rescheduleErrors = TRUE, !.errorDelay = 1]

ForceAlignment == [DefaultOptions EXCEPT !.forceAlignmentBeforeJob = TRUE]

PreemptiveShutdown == [DefaultOptions EXCEPT !.preemptiveShutdown = TRUE]

EnforceWeather == [DefaultOptions EXCEPT !.enforceWeather = TRUE]

RepeatSequence == [DefaultOptions EXCEPT !.repeatSequence = TRUE]

\* a queue, the options and the presence of a dome
Scenario(first, second, opts, dome) ==
    [jobs |-> [j \in JobIds |-> IF j = 1 THEN first ELSE IF j = 2 THEN second ELSE NoJobRecord],
     options |-> opts, domeReady |-> dome]

OtherJob == NewJob("FINISH_SEQUENCE", 1, {}, TRUE, 2)

InitModuleState ==
    [activeJob |-> NoJob, schedulerState |-> "SCHEDULER_IDLE",
     timerState |-> "RUN_NOTHING", timerInterval |-> UpdatePeriodMs, iterationSetup |-> FALSE,
     timerActive |-> FALSE,
     startupState |-> "STARTUP_IDLE", shutdownState |-> "SHUTDOWN_IDLE", parkWaitState |-> "PARKWAIT_IDLE",
     ekosState |-> "EKOS_IDLE", indiState |-> "INDI_IDLE",
     preemptiveShutdown |-> FALSE, wakeupTime |-> InvalidTime, autofocusCompleted |-> FALSE,
     alignFailureCount |-> 0, captureFailureCount |-> 0, focusFailureCount |-> 0, guideFailureCount |-> 0,
     captureBatch |-> 0, sequenceExecutionCounter |-> 1, domeReady |-> FALSE,
     weatherStatus |-> "WEATHER_IDLE"]

(***************************************************************************)
(* The answers of the collaborators.                                       *)
(***************************************************************************)
DefaultEnv ==
    [proc |-> "ok", plan |-> [j \in JobIds |-> 0], guiding |-> FALSE, poll |-> "ACTIVE",
     opTimeout |-> FALSE, reconnect |-> TRUE, checkJob |-> TRUE, guideError |-> FALSE,
     files |-> [sig \in Signatures |-> 0]]

ProcEnv == {[DefaultEnv EXCEPT !.proc = p] : p \in {"ok", "wait", "fail"}}

PlanEnv == {[DefaultEnv EXCEPT !.plan = pl] : pl \in Plans}

\* every job gets the same answer
UniformPlanEnv == {e \in PlanEnv : \A i, j \in JobIds : e.plan[i] = e.plan[j]}

SchedulerEnv == ProcEnv \cup PlanEnv

PollEnv ==
    {[DefaultEnv EXCEPT !.poll = po, !.opTimeout = TRUE] : po \in PollValues}
    \cup {[DefaultEnv EXCEPT !.poll = "INVALID", !.reconnect = FALSE],
          [DefaultEnv EXCEPT !.guiding = TRUE]}

JobCheckEnv == PollEnv \cup {[DefaultEnv EXCEPT !.checkJob = FALSE]} \cup ProcEnv \cup UniformPlanEnv

CaptureEnv == {[DefaultEnv EXCEPT !.guideError = TRUE]} \cup UniformPlanEnv

CallbackEnv == {DefaultEnv, [DefaultEnv EXCEPT !.guiding = TRUE]}

\* the frames found in the storage
FilesEnv == {[DefaultEnv EXCEPT !.files = f] : f \in [Signatures -> 0..MaxFiles]}

IterationEnv(timerState) ==
    CASE timerState = "RUN_SCHEDULER" -> SchedulerEnv
      [] timerState = "RUN_JOBCHECK" -> JobCheckEnv
      [] timerState = "RUN_SHUTDOWN" -> ProcEnv
      [] OTHER -> {DefaultEnv}

(***************************************************************************)
(* ImageOverlayComponent (src/unnamed/part_003): the queue of the image    *)
(* overlays to plate-solve.  o is the component: the status of every row   *)
(* of m_Overlays, m_RowsToSolve, the solver (none before the first solve,  *)
(* running or idle), the row handed to it, the connection of its done      *)
(* signal, and m_TryAgainTimer.  op is the slot that ran last.             *)
(***************************************************************************)
NRows == 3

Rows == 1..NRows

OverlayStatuses == {"UNPROCESSED", "PLATE_SOLVE_FAILURE", "AVAILABLE"}

NewOverlays(status) ==
    [status |-> status, rowsToSolve |-> <<>>, solver |-> "none", solving |-> 0, connected |-> FALSE,
     timer |-> FALSE, op |-> "load", solved |-> FALSE]

\* the orders in which a QSet of rows may be iterated
Orders(rows) == {q \in [1..Cardinality(rows) -> rows] : \A i, j \in DOMAIN q : q[i] = q[j] => i = j}

Unsolved(o, q) == SelectSeq(q, LAMBDA r : o.status[r] # "AVAILABLE")

solveImage(o, row) == [o EXCEPT !.solver = "running", !.solving = row, !.connected = TRUE]

\* a start that queues the solved rows of the selection too
startSolvingAnyRow(o, selection) ==
    IF o.solver = "running"
    THEN IF o.rowsToSolve # <<>> THEN [o EXCEPT !.timer = TRUE] ELSE o
    ELSE LET q == IF o.rowsToSolve = <<>> THEN selection ELSE o.rowsToSolve
             o1 == [o EXCEPT !.rowsToSolve = q]
         IN  IF q = <<>> THEN o1 ELSE solveImage(o1, Head(q))

\* selection: the selected rows, in the order the set gives them
RECURSIVE startSolving(_, _)
startSolving(o, selection) ==
    IF o.solver = "running"
    THEN IF o.rowsToSolve # <<>> THEN [o EXCEPT !.timer = TRUE] ELSE o
    ELSE LET q == IF o.rowsToSolve = <<>> THEN Unsolved(o, selection) ELSE o.rowsToSolve
             o1 == [o EXCEPT !.rowsToSolve = q]
         IN  IF q = <<>> THEN o1
             ELSE IF o1.status[Head(q)] = "AVAILABLE"
                  THEN IF Tail(q) # <<>> THEN startSolving([o1 EXCEPT !.rowsToSolve = Tail(q)], selection)
                       ELSE [o1 EXCEPT !.rowsToSolve = Tail(q)]
                  ELSE solveImage(o1, Head(q))

\* SolverUtils::abort ends the solver later, with its done signal
abortSolving(o) == [o EXCEPT !.rowsToSolve = <<>>]

tryAgain(o, selection) ==
    IF o.rowsToSolve # <<>> THEN startSolving([o EXCEPT !.timer = FALSE], selection)
    ELSE [o EXCEPT !.timer = FALSE]

\* the status that the result of the solver gives
solverStatus(timedOut, success) == IF timedOut \/ ~success THEN "PLATE_SOLVE_FAILURE" ELSE "AVAILABLE"

solverDone(o, timedOut, success, selection) ==
    LET o0 == [o EXCEPT !.connected = FALSE] IN
    IF o0.rowsToSolve = <<>> THEN o0
    ELSE LET o1 == [o0 EXCEPT !.rowsToSolve = Tail(@),
                              !.status[Head(o0.rowsToSolve)] = solverStatus(timedOut, success)]
         IN  IF o1.rowsToSolve # <<>> THEN startSolving(o1, selection) ELSE o1

(***************************************************************************)
(* The state machine.                                                      *)
(***************************************************************************)
InitScheduler(scenarios) ==
    \E sc \in scenarios :
        /\ jobs = sc.jobs
        /\ ms = [InitModuleState EXCEPT !.domeReady = sc.domeReady]
        /\ greedy = NoJob
        /\ options = sc.options
        /\ now = 0
        /\ out = {}
        /\ frames = NoFrames

\* the scheduler, and image overlays that are not solved
InitWith(scenarios) ==
    /\ InitScheduler(scenarios)
    /\ overlay = NewOverlays([r \in Rows |-> "UNPROCESSED"])

\* two targets, the first one with a mount to slew and a dome
Scenarios ==
    {Scenario(NewJob("FINISH_SEQUENCE", 1, {"USE_TRACK"}, TRUE, 1), OtherJob, DefaultOptions, TRUE)}

\* one job that goes through every stage, and jobs that are restarted at once when they fail
StageScenarios ==
    {Scenario(NewJob("FINISH_SEQUENCE", 1, FullPipeline, TRUE, 1), NoJobRecord, DefaultOptions, TRUE),
     Scenario(NewJob("FINISH_LOOP", 1, {"USE_FOCUS"}, TRUE, 1), NoJobRecord, RestartImmediately, FALSE),
     Scenario(NewJob("FINISH_SEQUENCE", 1, {"USE_GUIDE"}, TRUE, 1), NoJobRecord, RestartImmediately, FALSE)}

\* the completion conditions, with and without a duplicate of the job
CompletionScenarios ==
    {Scenario(NewJob("FINISH_REPEAT", n, {}, TRUE, 1), NoJobRecord, DefaultOptions, FALSE) : n \in 1..MaxRepeats}
    \cup {Scenario(NewJob("FINISH_REPEAT", MaxRepeats, {"USE_ALIGN"}, TRUE, 1), NoJobRecord, ForceAlignment, FALSE),
          Scenario(NewJob("FINISH_LOOP", 1, {}, TRUE, 1), OtherJob, DefaultOptions, FALSE),
          Scenario(NewJob("FINISH_LOOP", 1, {"USE_ALIGN"}, TRUE, 1), NoJobRecord, ForceAlignment, FALSE),
          Scenario(NewJob("FINISH_LOOP", 1, {}, TRUE, 1), NoJobRecord, RememberProgress, FALSE)}
    \cup {Scenario(NewJob("FINISH_SEQUENCE", 1, {}, c, 1), NewJob("FINISH_SEQUENCE", 1, {}, c, 1),
                   RememberProgress, FALSE) : c \in BOOLEAN}
    \cup {Scenario(NewJob("FINISH_SEQUENCE", 1, {}, TRUE, 1), OtherJob, RememberProgress, FALSE)}

\* the observatory shut down while a job waits for its start, looping jobs
\* and jobs that run until a fixed time
UnattendedScenarios ==
    {Scenario(NewJob("FINISH_SEQUENCE", 1, {}, TRUE, 1), NoJobRecord, PreemptiveShutdown, FALSE),
     Scenario(NewJob("FINISH_LOOP", 1, {}, TRUE, 1), NoJobRecord, RestartImmediately, FALSE),
     Scenario(NewJob("FINISH_LOOP", 1, {}, TRUE, 1), OtherJob, DefaultOptions, FALSE),
     Scenario(NewJob("FINISH_LOOP", 1, {"USE_ALIGN"}, TRUE, 1), NoJobRecord, ForceAlignment, FALSE),
     Scenario(NewJob("FINISH_AT", 1, {}, TRUE, 1), NewJob("FINISH_AT", 1, {}, TRUE, 1), DefaultOptions, FALSE),
     Scenario(NewJob("FINISH_AT", 1, {"USE_ALIGN"}, TRUE, 1), NoJobRecord, ForceAlignment, FALSE)}

\* the error handling strategies, for a job with a mount to slew, alone or with another job
ErrorOptions ==
    {[DefaultOptions EXCEPT !.errorHandling = h, !.rescheduleErrors = r, !.errorDelay = 1] :
        h \in {"DONT", "IMMEDIATE", "QUEUE"}, r \in BOOLEAN}

ErrorScenarios ==
    {Scenario(NewJob("FINISH_SEQUENCE", 1, {"USE_TRACK"}, TRUE, 1), second, opts, FALSE) :
        second \in {NoJobRecord, OtherJob}, opts \in ErrorOptions}

\* every pipeline, with and without in-sequence focus in the sequence file,
\* and jobs with an alignment that are restarted
PipelineScenarios ==
    {Scenario([NewJob("FINISH_SEQUENCE", 1, p, TRUE, 1) EXCEPT !.inSequenceFocus = f],
              NoJobRecord, DefaultOptions, FALSE) :
        p \in SUBSET FullPipeline, f \in BOOLEAN}
    \cup {Scenario(NewJob("FINISH_REPEAT", MaxRepeats, {"USE_ALIGN", "USE_GUIDE"}, TRUE, 1),
                   NoJobRecord, opts, FALSE) : opts \in {DefaultOptions, ForceAlignment}}
    \cup {Scenario(NewJob("FINISH_LOOP", 1, FullPipeline, TRUE, 1), NoJobRecord, RestartImmediately, TRUE)}

\* the startup and the shutdown script: none, a valid URL, a URL that is not valid
ScriptScenarios ==
    {Scenario(NewJob("FINISH_SEQUENCE", 1, {}, TRUE, 1), NoJobRecord,
              [DefaultOptions EXCEPT !.startupScriptURL = a, !.shutdownScriptURL = b], FALSE) :
        a \in {"EMPTY", "VALID", "INVALID"}, b \in {"EMPTY", "VALID", "INVALID"}}

\* a job of the given sequence file, with its sequence jobs
SequenceOf(seq, sjs, loads) ==
    [NewJob("FINISH_SEQUENCE", 1, {}, TRUE, seq) EXCEPT !.seqjobs = sjs, !.loads = loads]

SeqJob(sig, local) == [signature |-> sig, uploadLocal |-> local]

\* jobs that share a signature, a job that uploads locally, a job whose
\* sequence file does not load, and duplicates, with the progress remembered
FrameScenarios ==
    {Scenario(SequenceOf(1, {SeqJob(1, FALSE)}, TRUE), second, RememberProgress, FALSE) :
        second \in {SequenceOf(2, {SeqJob(1, FALSE), SeqJob(2, FALSE)}, TRUE),
                    SequenceOf(2, {SeqJob(2, TRUE)}, TRUE),
                    SequenceOf(2, {SeqJob(2, FALSE)}, FALSE),
                    SequenceOf(1, {SeqJob(1, FALSE)}, TRUE)}}

\* a queue that is run once, or again when all of its jobs are complete
ShutdownScenarios ==
    {Scenario(NewJob("FINISH_SEQUENCE", 1, {}, TRUE, 1), NoJobRecord, opts, FALSE) :
        opts \in {DefaultOptions, RepeatSequence}}

\* a queue of one job or of two, under a weather station that is obeyed or not
WeatherScenarios ==
    {Scenario(NewJob("FINISH_SEQUENCE", 1, {}, TRUE, 1), second, opts, FALSE) :
        second \in {NoJobRecord, OtherJob}, opts \in {DefaultOptions, EnforceWeather}}

\* a queue of one job or of two
QueueScenarios ==
    {Scenario(NewJob("FINISH_SEQUENCE", 1, {}, TRUE, 1), second, DefaultOptions, FALSE) :
        second \in {NoJobRecord, OtherJob}}

Init == InitWith(Scenarios)

\* the counters of the program are unbounded; the model follows them up to here
Bounded(s) ==
    /\ s.ms.captureBatch <= MaxCaptureBatch
    /\ s.ms.alignFailureCount <= MaxFailureAttempts + 1
    /\ s.ms.captureFailureCount <= MaxFailureAttempts + 1
    /\ s.ms.focusFailureCount <= MaxFailureAttempts + 1
    /\ s.ms.guideFailureCount <= MaxFailureAttempts + 1

\* the active job is one of the jobs of the queue
Attached == IF ms.activeJob = NoJob THEN TRUE ELSE jobs[ms.activeJob].present

\* a handler that returns without an effect is not a step; a handler that
\* runs after the active job was deleted reads freed memory, and the model
\* follows the program no further
Do(s) == Attached /\ Bounded(s) /\ s # Begin /\ Apply(s)

\* the iteration timer fires
Timeout ==
    /\ ms.timerActive
    /\ \E e \in IterationEnv(ms.timerState) : Do(iterate([Begin EXCEPT !.ms.timerActive = FALSE], e))

ToggleScheduler == Do(toggleScheduler(Begin, DefaultEnv))

Pause ==
    /\ ms.schedulerState = "SCHEDULER_RUNNING"
    /\ Do(pause(Begin))

CaptureStatuses == {"CAPTURE_PROGRESS", "CAPTURE_ABORTED", "CAPTURE_COMPLETE", "CAPTURE_IMAGE_RECEIVED"}

SetCaptureStatus == \E status \in CaptureStatuses, e \in CaptureEnv : Do(setCaptureStatus(Begin, status, e))

CallbackStatuses == {"DONE", "ERROR", "IDLE"}

SetMountStatus == \E status \in CallbackStatuses, e \in CallbackEnv : Do(setMountStatus(Begin, status, e))

SetAlignStatus == \E status \in CallbackStatuses, e \in CallbackEnv : Do(setAlignStatus(Begin, status, e))

SetFocusStatus == \E status \in CallbackStatuses, e \in CallbackEnv : Do(setFocusStatus(Begin, status, e))

SetGuideStatus == \E status \in CallbackStatuses, e \in CallbackEnv : Do(setGuideStatus(Begin, status, e))

RemoveJob == \E j \in JobIds, e \in UniformPlanEnv : jobs[j].present /\ Do(removeJob(Begin, j, e))

StartJobEvaluation ==
    /\ ms.schedulerState = "SCHEDULER_IDLE"
    /\ \E e \in UniformPlanEnv : Do(startJobEvaluation(Begin, e))

Tick ==
    /\ now < MaxTime
    /\ now' = now + 1
    /\ UNCHANGED <<jobs, ms, greedy, options, out, frames, overlay>>

\* the files the queue is loaded from: a file without a job and files with
\* one or two jobs
QueueFiles ==
    {[j \in JobIds |-> IF j \in slots THEN NewJob("FINISH_SEQUENCE", 1, {}, TRUE, j) ELSE NoJobRecord] :
        slots \in SUBSET (1..2)}

\* a job object made by the load is none of the objects the load deleted
Fresh(file) == IF ms.activeJob = NoJob THEN TRUE ELSE ~file[ms.activeJob].present

simClockTimeChanged(s, e) ==
    IF s.ms.schedulerState # "SCHEDULER_RUNNING" THEN startJobEvaluation(Signal(s, "updateNightTime"), e)
    ELSE Signal(s, "updateNightTime")

\* the simulation clock is set
SimClockTimeChanged == \E e \in UniformPlanEnv : Do(simClockTimeChanged(Begin, e))

LoadScheduler == \E file \in QueueFiles : Fresh(file) /\ Do(loadScheduler(Begin, file))

\* the load and append buttons; start disables the load button, stop enables it
Load ==
    \E clearQueue \in BOOLEAN, file \in QueueFiles, e \in UniformPlanEnv :
        /\ Fresh(file)
        /\ clearQueue => ms.schedulerState = "SCHEDULER_IDLE"
        /\ Do(load(Begin, clearQueue, file, e))

\* the evaluation of the queue with frames in the storage
EvaluateStored ==
    /\ ms.schedulerState = "SCHEDULER_IDLE"
    /\ \E e \in FilesEnv : Do(startJobEvaluation(Begin, e))

\* the weather station reports
SetWeatherStatus == \E status \in WeatherStatuses, e \in ProcEnv : Do(setWeatherStatus(Begin, status, e))

\* the overlays stored by earlier sessions
InitOverlays ==
    /\ InitScheduler(Scenarios)
    /\ \E status \in [Rows -> OverlayStatuses] : overlay = NewOverlays(status)

ImageOverlayStep(o, op, solved) ==
    /\ overlay' = [o EXCEPT !.op = op, !.solved = solved]
    /\ UNCHANGED <<jobs, ms, greedy, options, now, out, frames>>

\* the solve button, with the rows selected in the table
StartSolving ==
    \E rows \in SUBSET Rows : \E selection \in Orders(rows) :
        ImageOverlayStep(startSolving(overlay, selection), "startSolving", FALSE)

AbortSolving == ImageOverlayStep(abortSolving(overlay), "abortSolving", FALSE)

TryAgain ==
    /\ overlay.timer
    /\ \E rows \in SUBSET Rows : \E selection \in Orders(rows) :
            ImageOverlayStep(tryAgain(overlay, selection), "tryAgain", FALSE)

\* the solver ends (found, failed, timed out or aborted) and emits done
SolverDone ==
    /\ overlay.solver = "running"
    /\ overlay.connected
    /\ \E timedOut, success \in BOOLEAN : \E rows \in SUBSET Rows : \E selection \in Orders(rows) :
            ImageOverlayStep(solverDone([overlay EXCEPT !.solver = "idle"], timedOut, success, selection),
                             "solverDone", ~timedOut /\ success)

\* the start button while the scheduler is not running
Start ==
    /\ ms.schedulerState # "SCHEDULER_RUNNING"
    /\ Do(toggleScheduler(Begin, DefaultEnv))

Next ==
    \/ Timeout
    \/ ToggleScheduler
    \/ Pause
    \/ SetCaptureStatus
    \/ SetMountStatus
    \/ RemoveJob
    \/ StartJobEvaluation
    \/ Tick

Spec == Init /\ [][Next]_vars

\* the stages of a job: no queue edit, and the clock stands still
NextStages ==
    \/ Timeout
    \/ ToggleScheduler
    \/ Pause
    \/ SetCaptureStatus
    \/ SetMountStatus
    \/ SetAlignStatus
    \/ SetFocusStatus
    \/ SetGuideStatus

SpecStages == InitWith(StageScenarios) /\ [][NextStages]_vars

\* the end of a job
NextCompletion ==
    \/ Timeout
    \/ ToggleScheduler
    \/ Pause
    \/ SetCaptureStatus
    \/ SetMountStatus
    \/ SetAlignStatus
    \/ RemoveJob

SpecCompletion == InitWith(CompletionScenarios) /\ [][NextCompletion]_vars

\* the loop left to itself: the user starts the scheduler and never stops it
NextUnattended ==
    \/ Timeout
    \/ Start
    \/ SetCaptureStatus
    \/ SetMountStatus
    \/ SetAlignStatus
    \/ Tick

SpecUnattended == InitWith(UnattendedScenarios) /\ [][NextUnattended]_vars

\* one job through its pipeline
NextPipeline ==
    \/ Timeout
    \/ Start
    \/ SetCaptureStatus
    \/ SetMountStatus
    \/ SetAlignStatus
    \/ SetFocusStatus
    \/ SetGuideStatus

SpecPipeline == InitWith(PipelineScenarios) /\ [][NextPipeline]_vars

\* the start button, the evaluation of the queue and the loop
NextScripts ==
    \/ Timeout
    \/ Start
    \/ StartJobEvaluation
    \/ SetCaptureStatus

SpecScripts == InitWith(ScriptScenarios) /\ [][NextScripts]_vars

\* the queue is edited and evaluated while frames are stored
NextFrames ==
    \/ Timeout
    \/ Start
    \/ RemoveJob
    \/ EvaluateStored
    \/ SetCaptureStatus

SpecFrames == InitWith(FrameScenarios) /\ [][NextFrames]_vars

\* the scheduler is stopped by the user or by the shutdown of the observatory
NextStop ==
    \/ Timeout
    \/ ToggleScheduler
    \/ SetCaptureStatus
    \/ Tick

SpecStop == InitWith(UnattendedScenarios) /\ [][NextStop]_vars

\* the image overlays are plate-solved
NextOverlays ==
    \/ StartSolving
    \/ AbortSolving
    \/ TryAgain
    \/ SolverDone

\* the solver ends every run: it has a timeout of its own
SpecOverlays == InitOverlays /\ [][NextOverlays]_vars /\ WF_vars(SolverDone)

\* the queue runs out of jobs and the observatory is shut down
NextShutdown ==
    \/ Timeout
    \/ ToggleScheduler
    \/ Pause
    \/ SetCaptureStatus

SpecShutdown == InitWith(ShutdownScenarios) /\ [][NextShutdown]_vars

\* the weather changes while the scheduler runs or is paused
NextWeather ==
    \/ Timeout
    \/ ToggleScheduler
    \/ Pause
    \/ SetWeatherStatus

SpecWeather == InitWith(WeatherScenarios) /\ [][NextWeather]_vars

\* a scheduler that is paused while a job runs
NextPaused ==
    \/ Timeout
    \/ ToggleScheduler
    \/ Pause
    \/ SetCaptureStatus
    \/ SimClockTimeChanged

SpecPaused == InitWith(QueueScenarios) /\ [][NextPaused]_vars

\* the queue is removed from, loaded and appended to
NextQueue ==
    \/ Timeout
    \/ ToggleScheduler
    \/ RemoveJob
    \/ Load
    \/ LoadScheduler

SpecQueue == InitWith(QueueScenarios) /\ [][NextQueue]_vars

\* the failures of the jobs under each error handling strategy
NextErrors ==
    \/ Timeout
    \/ Start
    \/ SetCaptureStatus
    \/ SetMountStatus

SpecErrors == InitWith(ErrorScenarios) /\ [][NextErrors]_vars

(***************************************************************************)
(* The properties.  A handler step is a step during which the clock stands *)
(* still; out' then holds what the handler issued.                         *)
(***************************************************************************)
HandlerStep == now' = now

StartCommands == {"mount.slew", "focus.start", "align.start", "guide.start", "capture.start"}

AbortCommands == {"mount.abort", "focus.abort", "align.abort", "capture.abort.blocking"}

WatchdogTokens == {"watchdog.align", "watchdog.capture", "watchdog.focus", "watchdog.guide"}

RunTokens == {"run.wakeUpScheduler", "run.checkStatus", "run.checkJobStage", "run.checkShutdownState",
              "run.nothing"}

\* the watchdog of one stage: its token, the start command of the stage and
\* the failure counter of the subsystem
Watchdog(token, command, counter) ==
    HandlerStep /\ token \in out' =>
        IF ms[counter] + 1 <= MaxFailureAttempts
        THEN /\ ms'[counter] = ms[counter] + 1
             /\ command \in out'
             /\ "findNextJob" \notin out'
             /\ jobs'[ms.activeJob].state = jobs[ms.activeJob].state
        ELSE /\ "findNextJob" \in out'
             /\ command \notin out'
             /\ \/ jobs'[ms.activeJob].state = "SCHEDJOB_ABORTED"
                \/ /\ options.errorHandling = "IMMEDIATE"
                   /\ ms.schedulerState # "SCHEDULER_PAUSED"
                   /\ jobs'[ms.activeJob].state = "SCHEDJOB_SCHEDULED"

\* C1: when the watchdog of ALIGNING, CAPTURING, FOCUSING or GUIDING finds
\* the subsystem idle past the timeout of the stage, the failure counter of
\* the subsystem is incremented and the start command of the stage is issued
\* again while the counter does not exceed the maximum; on the first
\* increment that exceeds the maximum the job is marked ABORTED and
\* findNextJob runs (which reschedules the job at once when errors are
\* handled immediately), and the start command is not issued.
C1_WatchdogRestartsUpToMaximum ==
    [][/\ Watchdog("watchdog.align", "align.start", "alignFailureCount")
       /\ Watchdog("watchdog.capture", "capture.start", "captureFailureCount")
       /\ Watchdog("watchdog.focus", "focus.start", "focusFailureCount")
       /\ Watchdog("watchdog.guide", "guide.start", "guideFailureCount")]_vars

C1_Witness ==
    /\ "watchdog.capture" \in out
    /\ "findNextJob" \in out
    /\ jobs[1].state = "SCHEDJOB_ABORTED"
    /\ ms.activeJob = NoJob

\* a CAPTURE_COMPLETE event of the active job handled by findNextJob while
\* the scheduler is not paused
CaptureComplete(cc) ==
    /\ HandlerStep
    /\ "notify.CaptureFinished" \in out'
    /\ ms.schedulerState # "SCHEDULER_PAUSED"
    /\ jobs[ms.activeJob].completionCondition = cc

Restarted(j) ==
    /\ ms'.activeJob = j
    /\ jobs'[j].state = "SCHEDJOB_BUSY"
    /\ jobs'[j].stage \in {"SCHEDSTAGE_CAPTURING", "SCHEDSTAGE_ALIGNING"}
    /\ out' \cap {"capture.start", "align.start"} # {}
    /\ ms'.timerState = "RUN_JOBCHECK"

RepeatCounted ==
    \A j \in JobIds :
        jobs[j].present /\ jobs[j].completionCondition = "FINISH_REPEAT" /\ ~options.rememberJobProgress
            => jobs[j].repeatsRemaining + jobs[j].completedIterations = jobs[j].repeatsRequired

\* C2: with remember-progress off, every CAPTURE_COMPLETE of a REPEAT(N) job
\* handled by findNextJob counts one batch (repeatsRemaining + completed
\* batches = N throughout); while more than one batch remains the job is
\* restarted and stays the active job, and the event of the last batch
\* leaves the job COMPLETE with no batch remaining, released and not
\* restarted: N events for N batches.
C2_RepeatRunsExactlyNBatches ==
    /\ []RepeatCounted
    /\ [][CaptureComplete("FINISH_REPEAT") /\ ~options.rememberJobProgress =>
            LET j == ms.activeJob IN
            IF jobs[j].repeatsRemaining > 1
            THEN /\ Restarted(j)
                 /\ jobs'[j].repeatsRemaining = jobs[j].repeatsRemaining - 1
                 /\ jobs'[j].completedIterations = jobs[j].completedIterations + 1
            ELSE /\ ms'.activeJob = NoJob
                 /\ jobs'[j].state = "SCHEDJOB_COMPLETE"
                 /\ jobs'[j].repeatsRemaining = 0
                 /\ jobs'[j].completedIterations = jobs[j].repeatsRequired
                 /\ out' \cap StartCommands = {}]_vars

C2_Witness ==
    /\ "notify.CaptureFinished" \in out
    /\ jobs[1].completionCondition = "FINISH_REPEAT"
    /\ jobs[1].repeatsRequired = MaxRepeats
    /\ jobs[1].completedIterations = MaxRepeats
    /\ jobs[1].state = "SCHEDJOB_COMPLETE"
    /\ ms.activeJob = NoJob

\* C3: without a user stop or pause a LOOP job is never COMPLETE, and every
\* CAPTURE_COMPLETE of a LOOP job handled by findNextJob restarts the job:
\* it is BUSY again, in stage CAPTURING or ALIGNING, and stays the active
\* job.
C3_LoopJobIsAlwaysRestarted ==
    /\ [](\A j \in JobIds :
            jobs[j].present /\ jobs[j].completionCondition = "FINISH_LOOP" => jobs[j].state # "SCHEDJOB_COMPLETE")
    /\ [][CaptureComplete("FINISH_LOOP") => Restarted(ms.activeJob)]_vars

C3_Witness ==
    /\ "notify.CaptureFinished" \in out
    /\ jobs[1].completionCondition = "FINISH_LOOP"
    /\ jobs[1].state = "SCHEDJOB_BUSY"
    /\ ms.activeJob = 1
    /\ ms.captureBatch = MaxCaptureBatch

\* the end of a SEQUENCE job under remember-progress
SequenceComplete == CaptureComplete("FINISH_SEQUENCE") /\ options.rememberJobProgress

DuplicatesIdle(j) ==
    \A k \in JobIds :
        jobs[k].present /\ k # j /\ jobs[k].sequence = jobs[j].sequence => jobs'[k].state = "SCHEDJOB_IDLE"

\* C4 as stated: the completed job and its duplicates are all IDLE, the
\* active job is cleared and the next phase is SCHEDULER-EVALUATE.
C4_AsStated ==
    [][SequenceComplete =>
            /\ jobs'[ms.activeJob].state = "SCHEDJOB_IDLE"
            /\ DuplicatesIdle(ms.activeJob)
            /\ ms'.activeJob = NoJob
            /\ ms'.timerState = "RUN_SCHEDULER"]_vars

\* C4: with remember-progress on, when findNextJob handles the completion
\* of a SEQUENCE job every duplicate of the job is IDLE, the job itself is
\* IDLE when its captures can be counted and COMPLETE when they cannot, the
\* active job is cleared and the next phase is SCHEDULER-EVALUATE.
C4_DuplicatesIdleAfterSequence ==
    [][SequenceComplete =>
            /\ jobs'[ms.activeJob].state = IF canCountCaptures(jobs[ms.activeJob]) THEN "SCHEDJOB_IDLE"
                                           ELSE "SCHEDJOB_COMPLETE"
            /\ DuplicatesIdle(ms.activeJob)
            /\ ms'.activeJob = NoJob
            /\ ms'.timerState = "RUN_SCHEDULER"]_vars

C4_Witness ==
    /\ "notify.CaptureFinished" \in out
    /\ options.rememberJobProgress
    /\ jobs[1].sequence = jobs[2].sequence
    /\ jobs[2].present
    /\ jobs[1].state = "SCHEDJOB_COMPLETE"
    /\ jobs[2].state = "SCHEDJOB_IDLE"
    /\ ms.activeJob = NoJob

\* C5: at most one job is BUSY, and a BUSY job is the active job.
C5_OneActiveJob ==
    /\ Cardinality({j \in JobIds : jobs[j].present /\ jobs[j].state = "SCHEDJOB_BUSY"}) <= 1
    /\ \A j \in JobIds : jobs[j].present /\ jobs[j].state = "SCHEDJOB_BUSY" => ms.activeJob = j

C5_Witness ==
    /\ jobs[2].state = "SCHEDJOB_BUSY"
    /\ ms.activeJob = 2
    /\ jobs[1].present
    /\ jobs[1].state = "SCHEDJOB_COMPLETE"

\* C6 as stated: an iteration run in phase NONE leaves a negative wake
\* interval and the iteration timer is not started again.
C6_NonePhaseStopsTheLoop ==
    [][HandlerStep /\ "run.nothing" \in out' => ms'.timerInterval < 0 /\ ~ms'.timerActive]_vars

HandlerOf(phase) ==
    CASE phase = "RUN_WAKEUP" -> "run.wakeUpScheduler"
      [] phase = "RUN_SCHEDULER" -> "run.checkStatus"
      [] phase = "RUN_JOBCHECK" -> "run.checkJobStage"
      [] phase = "RUN_SHUTDOWN" -> "run.checkShutdownState"
      [] phase = "RUN_NOTHING" -> "run.nothing"

\* the phase at the entry of the iteration of a step: start() sets it to
\* RUN_WAKEUP before it iterates
EntryPhase == IF "start" \in out' THEN "RUN_WAKEUP" ELSE ms.timerState

\* C7: an iteration dispatches to exactly one handler, the one of the phase
\* at its entry; when the handler does not set up the next iteration the
\* phase is left unchanged and the wake interval is the default update
\* period.
C7_OneHandlerAndFallback ==
    [][HandlerStep /\ out' \cap RunTokens # {} =>
            /\ out' \cap RunTokens = {HandlerOf(EntryPhase)}
            /\ ~ms'.iterationSetup =>
                    /\ ms'.timerState = EntryPhase
                    /\ ms'.timerInterval = UpdatePeriodMs
                    /\ ms'.timerActive]_vars

C7_Witness ==
    /\ "run.checkJobStage" \in out
    /\ ~ms.iterationSetup
    /\ ms.timerState = "RUN_JOBCHECK"
    /\ ms.timerInterval = UpdatePeriodMs

\* C8 as stated: without a user-initiated stop the wake interval is never
\* negative, so the iteration timer is always started again.
C8_LoopNeverStops == ms.timerInterval >= 0

\* C9 as stated: an invalid value of the polled status property leads to a
\* reconnection attempt, the job is in ERROR exactly when the attempt
\* fails, and the value is never handled as an idle subsystem.
C9_InvalidStatusIsConnectionLoss ==
    [][HandlerStep /\ "property.invalid" \in out' =>
            /\ "manageConnectionLoss" \in out'
            /\ jobs'[ms'.activeJob].state = "SCHEDJOB_ERROR" <=> "manageConnectionLoss.failed" \in out'
            /\ out' \cap WatchdogTokens = {}]_vars

ExpectedAbort(stage) ==
    IF stage = "SCHEDSTAGE_SLEWING" THEN {"mount.abort"}
    ELSE IF stage = "SCHEDSTAGE_FOCUSING" THEN {"focus.abort"}
    ELSE IF stage = "SCHEDSTAGE_ALIGNING" THEN {"align.abort"}
    ELSE IF stage = "SCHEDSTAGE_CAPTURING" THEN {"capture.abort.blocking"}
    ELSE {}

\* C10: stopCurrentJobAction with an active job issues the abort command
\* of the subsystem of the stage of the job (mount in SLEWING, focus in
\* FOCUSING, align in ALIGNING, capture in CAPTURING, as a blocking call) and
\* no other abort command, leaves the stage of the job IDLE and asks the
\* guiding to stop.
C10_StopCurrentJobAction ==
    [][HandlerStep /\ "stopCurrentJobAction" \in out' =>
            /\ out' \cap AbortCommands = ExpectedAbort(jobs[ms.activeJob].stage)
            /\ jobs'[ms.activeJob].stage = "SCHEDSTAGE_IDLE"
            /\ "guide.stop" \in out']_vars

C10_Witness ==
    /\ "stopCurrentJobAction" \in out
    /\ "capture.abort.blocking" \in out
    /\ "guide.stop" \in out
    /\ jobs[1].stage = "SCHEDSTAGE_IDLE"

\* findNextJob handles a failed job: the log line tells how the job failed
JobFailed == HandlerStep /\ out' \cap {"log.jobAborted", "log.jobError"} # {}

RestartsAtOnce ==
    /\ options.errorHandling = "IMMEDIATE"
    /\ "log.jobAborted" \in out' \/ options.rescheduleErrors

\* C11: when findNextJob handles an ABORTED or ERROR active job, the stage
\* of the job is reset to IDLE; under restart-immediately an ABORTED job (and
\* an ERROR job when errors are rescheduled) is set to SCHEDULED, stays the
\* active job and the next phase is WAKEUP after the configured delay; in
\* every other case the job keeps its ABORTED or ERROR status, the active
\* job is cleared and the next phase is SCHEDULER-EVALUATE.
C11_StrategyConsultedOnFailure ==
    [][JobFailed =>
            LET j == ms.activeJob IN
            /\ jobs'[j].stage = "SCHEDSTAGE_IDLE"
            /\ IF RestartsAtOnce
               THEN /\ jobs'[j].state = "SCHEDJOB_SCHEDULED"
                    /\ ms'.activeJob = j
                    /\ ms'.timerState = "RUN_WAKEUP"
                    /\ ms'.timerInterval = options.errorDelay * 1000
               ELSE /\ jobs'[j].state = IF "log.jobAborted" \in out' THEN "SCHEDJOB_ABORTED" ELSE "SCHEDJOB_ERROR"
                    /\ ms'.activeJob = NoJob
                    /\ ms'.timerState = "RUN_SCHEDULER"]_vars

C11_Witness ==
    /\ "log.jobError" \in out
    /\ options.errorHandling = "IMMEDIATE"
    /\ options.rescheduleErrors
    /\ jobs[1].state = "SCHEDJOB_SCHEDULED"
    /\ ms.activeJob = 1
    /\ ms.timerState = "RUN_WAKEUP"

SelectTokens == {"log.noJobsLeft", "log.onlyAbortedJobsLeft", "log.noJobsScheduled", "selectActiveJob.scheduled"}

\* selectActiveJob runs in the step
SelectRan == HandlerStep /\ out' \cap SelectTokens # {}

AllJobsIn(states) == PresentJobs(Cur) # {} /\ \A j \in PresentJobs(Cur) : jobs[j].state \in states

StatesKept == \A j \in JobIds : jobs'[j].state = jobs[j].state

\* C12 as stated: with every job ABORTED and the strategy don't-restart the
\* active job is left null, the 'no jobs left' message is logged and no
\* status changes.
C12_AsStated ==
    [][SelectRan /\ AllJobsIn({"SCHEDJOB_ABORTED"}) /\ options.errorHandling = "DONT" =>
            /\ ms'.activeJob = NoJob
            /\ "log.noJobsLeft" \in out'
            /\ StatesKept]_vars

\* C12: with every job ABORTED and the strategy don't-restart,
\* selectActiveJob leaves the active job null and changes no status; the
\* message it logs is 'No jobs scheduled', not the 'No jobs left' message
\* (which is logged only when no job is SCHEDULED or ABORTED).
C12_AllAbortedDontRestart ==
    [][SelectRan /\ AllJobsIn({"SCHEDJOB_ABORTED"}) /\ options.errorHandling = "DONT" =>
            /\ ms'.activeJob = NoJob
            /\ out' \cap SelectTokens = {"log.noJobsScheduled"}
            /\ StatesKept]_vars

C12_Witness ==
    /\ "log.noJobsScheduled" \in out
    /\ options.errorHandling = "DONT"
    /\ \A j \in PresentJobs(Cur) : jobs[j].state = "SCHEDJOB_ABORTED"
    /\ jobs[2].present
    /\ ms.activeJob = NoJob

Failed == {"SCHEDJOB_ABORTED", "SCHEDJOB_ERROR"}

\* C13 as stated: with every job aborted or errored and a strategy that
\* permits the restart, every aborted and every errored job ends the call
\* in EVALUATION and no job is selected.
C13_AsStated ==
    [][SelectRan /\ AllJobsIn(Failed) /\ options.errorHandling # "DONT" =>
            /\ \A j \in PresentJobs(Cur) : jobs'[j].state = "SCHEDJOB_EVALUATION"
            /\ ms'.activeJob = NoJob
            /\ "selectActiveJob.scheduled" \notin out']_vars

\* C13: with every job aborted or errored and a strategy that permits the
\* restart, selectActiveJob selects no job; when a job is ABORTED every
\* ABORTED job ends the call in EVALUATION and every ERROR job stays in
\* ERROR, and when no job is ABORTED no status changes and the 'no jobs
\* left' message is logged.
C13_AbortedJobsRequeued ==
    [][SelectRan /\ AllJobsIn(Failed) /\ options.errorHandling # "DONT" =>
            /\ ms'.activeJob = NoJob
            /\ IF \E j \in PresentJobs(Cur) : jobs[j].state = "SCHEDJOB_ABORTED"
               THEN /\ out' \cap SelectTokens = {"log.onlyAbortedJobsLeft"}
                    /\ \A j \in PresentJobs(Cur) :
                          jobs'[j].state = IF jobs[j].state = "SCHEDJOB_ABORTED" THEN "SCHEDJOB_EVALUATION"
                                           ELSE "SCHEDJOB_ERROR"
               ELSE /\ out' \cap SelectTokens = {"log.noJobsLeft"}
                    /\ StatesKept]_vars

C13_Witness ==
    /\ "log.onlyAbortedJobsLeft" \in out
    /\ options.errorHandling = "QUEUE"
    /\ jobs[1].state = "SCHEDJOB_ERROR"
    /\ jobs[2].state = "SCHEDJOB_EVALUATION"
    /\ ms.activeJob = NoJob

EvaluationTokens == SelectTokens \cup {"scheduleJobs", "updateCompletedJobsCount"}

\* C14: with an empty job list evaluateJobs changes nothing (the greedy
\* scheduler is not invoked, the captured frames are not refreshed, no job
\* is selected, the scheduler state is unchanged) and selectActiveJob
\* leaves the active job null; a handler that ends with an empty list has
\* not evaluated and leaves no active job.
C14_EmptyListIsNoOp ==
    /\ [](PresentJobs(Cur) = {} =>
            /\ \A e \in PlanEnv, evaluateOnly \in BOOLEAN : evaluateJobs(Cur, evaluateOnly, e) = Cur
            /\ selectActiveJob(Cur).ms.activeJob = NoJob)
    /\ [][HandlerStep /\ (\A j \in JobIds : ~jobs'[j].present) =>
            /\ out' \cap EvaluationTokens = {}
            /\ ms'.activeJob = NoJob]_vars

C14_Witness ==
    /\ PresentJobs(Cur) = {}
    /\ "run.checkStatus" \in out
    /\ ms.schedulerState = "SCHEDULER_RUNNING"
    /\ ms.activeJob = NoJob

\* C15: when a capture batch of a job that runs until a fixed time
\* completes, findNextJob compares now with the completion time: at or past
\* it the job and its duplicates become IDLE, the stage becomes IDLE, the
\* active job is released and the next phase is SCHEDULER-EVALUATE; before
\* it the job is restarted (BUSY, in stage CAPTURING or ALIGNING, still the
\* active job), the capture batch counter increases by one and the next
\* phase is JOB-CHECK.
C15_UntilComparesNowWithEndTime ==
    [][CaptureComplete("FINISH_AT") =>
            LET j == ms.activeJob IN
            IF secsTo(now, jobs[j].completionTime) <= 0
            THEN /\ jobs'[j].state = "SCHEDJOB_IDLE"
                 /\ DuplicatesIdle(j)
                 /\ jobs'[j].stage = "SCHEDSTAGE_IDLE"
                 /\ ms'.activeJob = NoJob
                 /\ ms'.timerState = "RUN_SCHEDULER"
                 /\ out' \cap StartCommands = {}
            ELSE /\ Restarted(j)
                 /\ ms'.captureBatch = ms.captureBatch + 1]_vars

C15_Witness ==
    /\ "notify.CaptureFinished" \in out
    /\ jobs[1].completionCondition = "FINISH_AT"
    /\ jobs[1].state = "SCHEDJOB_BUSY"
    /\ jobs[1].stage = "SCHEDSTAGE_ALIGNING"
    /\ ms.activeJob = 1
    /\ ms.captureBatch = 1
    /\ now < jobs[1].completionTime

Conditions == {"FINISH_SEQUENCE", "FINISH_REPEAT", "FINISH_LOOP", "FINISH_AT"}

\* the active job as findNextJob may find it
Ended(st, cc, rr) ==
    [Begin EXCEPT !.jobs[ms.activeJob].state = st,
                  !.jobs[ms.activeJob].completionCondition = cc,
                  !.jobs[ms.activeJob].repeatsRemaining = rr]

\* C16: the fallback branch of findNextJob is never taken: no handler
\* reaches it, and for every status ERROR, ABORTED, IDLE or COMPLETE of the
\* active job, every completion condition and every number of repeats
\* remaining an earlier branch matches.
C16_FallbackNeverTaken ==
    /\ "log.BUGBUG" \notin out
    /\ ms.activeJob # NoJob =>
            \A st \in EndStates, cc \in Conditions, rr \in 0..MaxRepeats :
                "log.BUGBUG" \notin findNextJob(Ended(st, cc, rr), DefaultEnv).out

C16_Witness ==
    /\ "notify.CaptureFinished" \in out
    /\ "findNextJob" \in out
    /\ "log.BUGBUG" \notin out
    /\ jobs[1].completionCondition = "FINISH_AT"
    /\ jobs[1].state = "SCHEDJOB_IDLE"
    /\ jobs[2].state = "SCHEDJOB_IDLE"
    /\ ms.activeJob = NoJob

\* the outcome of an evaluation pass: the scheduled job and every job's
\* status, startup time and completion time
Schedule(s) ==
    [scheduled |-> s.greedy,
     times |-> [j \in JobIds |-> <<s.jobs[j].state, s.jobs[j].startupTime, s.jobs[j].completionTime>>]]

AbandonTokens ==
    {"run.checkJobStage", "checkJob.false", "findNextJob", "stopCurrentJobAction", "guide.stop", "jobEnded"}
        \cup AbortCommands

\* C18: when checkJob is false for the active job in a JOB-CHECK tick of a
\* scheduler that is not paused, in that tick the job becomes IDLE, its
\* action is stopped and its stage becomes IDLE, the active job is cleared
\* and the next phase is SCHEDULER-EVALUATE; no watchdog and no step of the
\* pipeline runs for it.
C18_FailedCheckAbandonsJob ==
    [][HandlerStep /\ "checkJob.false" \in out' /\ ms.schedulerState # "SCHEDULER_PAUSED" =>
            LET j == ms.activeJob IN
            /\ ms.timerState = "RUN_JOBCHECK"
            /\ jobs'[j].state = "SCHEDJOB_IDLE"
            /\ jobs'[j].stage = "SCHEDSTAGE_IDLE"
            /\ "stopCurrentJobAction" \in out'
            /\ ms'.activeJob = NoJob
            /\ ms'.timerState = "RUN_SCHEDULER"
            /\ out' \cap (WatchdogTokens \cup StartCommands) = {}
            /\ out' \subseteq AbandonTokens]_vars

C18_Witness ==
    /\ "checkJob.false" \in out
    /\ "capture.abort.blocking" \in out
    /\ ms.activeJob = NoJob
    /\ ms.timerState = "RUN_SCHEDULER"
    /\ ms.schedulerState = "SCHEDULER_RUNNING"
    /\ jobs[1].state = "SCHEDJOB_IDLE"
    /\ jobs[1].stage = "SCHEDSTAGE_IDLE"

\* the stages at which getNextAction chooses the next step
EntryStages ==
    {"SCHEDSTAGE_IDLE", "SCHEDSTAGE_SLEW_COMPLETE", "SCHEDSTAGE_FOCUS_COMPLETE", "SCHEDSTAGE_ALIGN_COMPLETE",
     "SCHEDSTAGE_RESLEWING_COMPLETE", "SCHEDSTAGE_POSTALIGN_FOCUSING_COMPLETE", "SCHEDSTAGE_GUIDING_COMPLETE"}

\* getNextAction was entered at this stage in the step
Entered(stage) == ("getNextAction." \o stage) \in out'

\* the place of a start command in the order TRACK, FOCUS, ALIGN, GUIDE, CAPTURE
Rank(cmd) ==
    CASE cmd = "mount.slew" -> 1
      [] cmd = "focus.start" -> 2
      [] cmd = "align.start" -> 3
      [] cmd = "guide.start" -> 4
      [] cmd = "capture.start" -> 5

\* the place of the step that a stage completes
Done(stage) ==
    CASE stage = "SCHEDSTAGE_IDLE" -> 0
      [] stage = "SCHEDSTAGE_SLEW_COMPLETE" -> 1
      [] stage = "SCHEDSTAGE_FOCUS_COMPLETE" -> 2
      [] stage \in {"SCHEDSTAGE_ALIGN_COMPLETE", "SCHEDSTAGE_RESLEWING_COMPLETE",
                    "SCHEDSTAGE_POSTALIGN_FOCUSING_COMPLETE"} -> 3
      [] stage = "SCHEDSTAGE_GUIDING_COMPLETE" -> 4

StepOf(cmd) ==
    CASE cmd = "mount.slew" -> "USE_TRACK"
      [] cmd = "focus.start" -> "USE_FOCUS"
      [] cmd = "align.start" -> "USE_ALIGN"
      [] cmd = "guide.start" -> "USE_GUIDE"
      [] cmd = "capture.start" -> "CAPTURE"

EnabledIn(pipeline, cmd) == cmd = "capture.start" \/ StepOf(cmd) \in pipeline

\* the first enabled step after the place n, capture when none is left
FirstAfter(n, pipeline) ==
    CHOOSE c \in StartCommands :
        /\ EnabledIn(pipeline, c) /\ Rank(c) > n
        /\ \A d \in StartCommands : EnabledIn(pipeline, d) /\ Rank(d) > n => Rank(c) <= Rank(d)

Started == out' \cap StartCommands

AfterReslew ==
    {"SCHEDSTAGE_POSTALIGN_FOCUSING", "SCHEDSTAGE_POSTALIGN_FOCUSING_COMPLETE",
     "SCHEDSTAGE_GUIDING", "SCHEDSTAGE_GUIDING_COMPLETE", "SCHEDSTAGE_CAPTURING"}

\* C20: the re-slew after the alignment is mandatory.  getNextAction at
\* ALIGN_COMPLETE starts nothing and sets the stage RESLEWING; a job enters
\* RESLEWING only from the alignment, leaves it only for RESLEWING_COMPLETE
\* or, abandoned, for IDLE, enters RESLEWING_COMPLETE only from RESLEWING,
\* and a job with an alignment step enters focusing after the alignment,
\* GUIDING or CAPTURING only from RESLEWING_COMPLETE: RESLEWING and
\* RESLEWING_COMPLETE lie between ALIGN_COMPLETE and any later GUIDING or
\* CAPTURING.
C20_ReslewAfterAlign ==
    [][HandlerStep =>
        /\ Entered("SCHEDSTAGE_ALIGN_COMPLETE") =>
                /\ jobs[ms.activeJob].stage = "SCHEDSTAGE_ALIGNING"
                /\ jobs'[ms.activeJob].stage = "SCHEDSTAGE_RESLEWING"
                /\ Started = {}
        /\ \A j \in JobIds :
              LET from == jobs[j].stage
                  to == jobs'[j].stage
              IN  /\ to = "SCHEDSTAGE_RESLEWING" /\ from # to =>
                        from = "SCHEDSTAGE_ALIGNING" /\ Entered("SCHEDSTAGE_ALIGN_COMPLETE")
                  /\ from = "SCHEDSTAGE_RESLEWING" =>
                        to \in {"SCHEDSTAGE_RESLEWING", "SCHEDSTAGE_RESLEWING_COMPLETE", "SCHEDSTAGE_IDLE"}
                  /\ to = "SCHEDSTAGE_RESLEWING_COMPLETE" /\ from # to => from = "SCHEDSTAGE_RESLEWING"
                  /\ "USE_ALIGN" \in jobs[j].stepPipeline /\ jobs[j].lightFramesRequired
                     /\ to \in AfterReslew /\ from \notin AfterReslew =>
                        from = "SCHEDSTAGE_RESLEWING_COMPLETE"]_vars

C20_Witness ==
    /\ "getNextAction.SCHEDSTAGE_RESLEWING_COMPLETE" \in out
    /\ "guide.start" \in out
    /\ ms.activeJob = 1
    /\ jobs[1].stepPipeline = {"USE_ALIGN", "USE_GUIDE"}
    /\ jobs[1].stage = "SCHEDSTAGE_GUIDING"
    /\ jobs[1].completionCondition = "FINISH_REPEAT"
    /\ jobs[1].repeatsRemaining < MaxRepeats

\* a start request while a script URL is set and not valid
RejectedStart ==
    /\ HandlerStep
    /\ "start" \in out'
    /\ ms.schedulerState = "SCHEDULER_IDLE"
    /\ UrlRejected(options.startupScriptURL) \/ UrlRejected(options.shutdownScriptURL)

\* C21: a start request made while a startup or shutdown script URL is set
\* and not valid changes nothing: the scheduler state stays IDLE, no job
\* status is modified, and the loop phase and the timer are as before.
C21_RejectedStartChangesNothing ==
    [][RejectedStart =>
        /\ ms'.schedulerState = "SCHEDULER_IDLE"
        /\ \A j \in JobIds : jobs'[j].state = jobs[j].state
        /\ ms'.timerState = ms.timerState
        /\ ms'.timerActive = ms.timerActive
        /\ ms'.timerInterval = ms.timerInterval]_vars

\* C22: when progress is not remembered, the completion of a job handled
\* by findNextJob, whatever its completion condition, changes the status of
\* no other job, duplicates of the job included.
C22_DuplicatesTrackIndependently ==
    [][/\ HandlerStep
       /\ "notify.CaptureFinished" \in out'
       /\ ms.schedulerState # "SCHEDULER_PAUSED"
       /\ ~options.rememberJobProgress
       => \A k \in JobIds : k # ms.activeJob => jobs'[k].state = jobs[k].state]_vars

\* the signatures stored on the client side by the jobs whose sequence loads
UsedSignatures(js) ==
    UNION {ClientSignatures(js[j]) : j \in {k \in JobIds : js[k].present /\ js[k].loads}}

\* the frames of a signature in the map, none if it has no entry
Stored(count, sig) == IF count[sig] = NoCount THEN 0 ELSE count[sig]

\* C23: after updateCompletedJobsCount the captured frames map has an
\* entry for exactly the signatures of the client-stored sequence jobs of
\* the jobs whose sequence loads (one count per signature, none for a
\* signature that no job uses any more), and every job that ends with its
\* sequence is evaluated against the count of the map: it requires light
\* frames exactly if the map holds fewer frames of one of its signatures
\* than the job captures.
C23_OneCountPerSignature ==
    [][HandlerStep /\ "setCapturedFramesCount" \in out' =>
        /\ \A sig \in Signatures : frames'[sig] # NoCount <=> sig \in UsedSignatures(jobs')
        /\ \A j \in JobIds :
              /\ jobs'[j].present /\ jobs'[j].loads
              /\ jobs'[j].completionCondition \in {"FINISH_SEQUENCE", "FINISH_REPEAT"}
              => (jobs'[j].lightFramesRequired <=>
                    \E sj \in jobs'[j].seqjobs : Stored(frames', sj.signature) < jobs'[j].repeatsRequired)]_vars

\* a job was removed and the count of its signature is gone, the count of
\* the signature of the other job is the one of the earlier run
C23_Witness ==
    /\ "setCapturedFramesCount" \in out
    /\ jobs[1].present /\ ~jobs[2].present
    /\ frames[1] = MaxFiles
    /\ frames[2] = NoCount
    /\ ~jobs[1].lightFramesRequired


\* the start commands of getNextAction for the active job when guiding is
\* reported running
StartedWhileGuiding(e) == getNextAction(Begin, e).out \cap StartCommands

\* the active job waits at IDLE with the guide step in its pipeline
GuideJobAtIdle ==
    /\ ms.activeJob # NoJob
    /\ jobs[ms.activeJob].stage = "SCHEDSTAGE_IDLE"
    /\ "USE_GUIDE" \in jobs[ms.activeJob].stepPipeline

\* C24 as stated: from IDLE, with guiding already running, getNextAction
\* starts the capture and no slew, focus, alignment or guiding, for every
\* pipeline that has the guide step.
C24_AsStated ==
    \A e \in CallbackEnv :
        GuideJobAtIdle /\ e.guiding => StartedWhileGuiding(e) = {"capture.start"}

\* C24: from IDLE, with guiding already running, getNextAction of a job
\* with the guide step never starts guiding.  It starts the capture at once
\* when the job needs no light frames or when its pipeline has neither the
\* track step, nor a focus step still to run, nor the align step; otherwise
\* it starts the first of slew, focus and alignment that the pipeline has.
C24_GuidingSkipsGuideOnly ==
    \A e \in CallbackEnv :
        GuideJobAtIdle /\ e.guiding =>
            LET job == jobs[ms.activeJob]
                pipeline == job.stepPipeline
            IN  StartedWhileGuiding(e) =
                    IF ~job.lightFramesRequired THEN {"capture.start"}
                    ELSE IF "USE_TRACK" \in pipeline THEN {"mount.slew"}
                    ELSE IF "USE_FOCUS" \in pipeline /\ ~ms.autofocusCompleted THEN {"focus.start"}
                    ELSE IF "USE_ALIGN" \in pipeline THEN {"align.start"}
                    ELSE {"capture.start"}

C24_Witness ==
    /\ "getNextAction.SCHEDSTAGE_IDLE" \in out
    /\ "capture.start" \in out
    /\ ms.activeJob = 1
    /\ jobs[1].stepPipeline = {"USE_GUIDE"}
    /\ jobs[1].lightFramesRequired
    /\ jobs[1].stage = "SCHEDSTAGE_CAPTURING"


\* the command that stops the subsystem at work in a stage
OwnerAbort(stage) ==
    CASE stage \in {"SCHEDSTAGE_SLEWING", "SCHEDSTAGE_RESLEWING"} -> {"mount.abort"}
      [] stage \in {"SCHEDSTAGE_FOCUSING", "SCHEDSTAGE_POSTALIGN_FOCUSING"} -> {"focus.abort"}
      [] stage = "SCHEDSTAGE_ALIGNING" -> {"align.abort"}
      [] stage = "SCHEDSTAGE_GUIDING" -> {"guide.stop"}
      [] stage = "SCHEDSTAGE_CAPTURING" -> {"capture.abort.blocking"}
      [] OTHER -> {}

\* C25: stopCurrentJobAction with an active job sends the abort to the
\* subsystem at work in the stage of the job, for every stage in progress:
\* the mount in SLEWING and RESLEWING, the focuser in FOCUSING and
\* POSTALIGN_FOCUSING, the alignment in ALIGNING, the capture in CAPTURING,
\* and guiding is stopped in GUIDING; the stage of the job is IDLE after it.
C25_AbortEveryStage ==
    [][HandlerStep /\ "stopCurrentJobAction" \in out' =>
            /\ OwnerAbort(jobs[ms.activeJob].stage) \subseteq out'
            /\ jobs'[ms.activeJob].stage = "SCHEDSTAGE_IDLE"]_vars


\* C26: the active job is always null or a job of the queue, and no step
\* deletes the job that is active.
C26_ActiveJobInList ==
    [][/\ IF ms'.activeJob = NoJob THEN TRUE ELSE jobs'[ms'.activeJob].present
       /\ \A j \in JobIds : jobs[j].present /\ ~jobs'[j].present => ms.activeJob # j]_vars


\* the four failure counters of a module state are zero
CountersZero(m) ==
    /\ m.alignFailureCount = 0
    /\ m.guideFailureCount = 0
    /\ m.focusFailureCount = 0
    /\ m.captureFailureCount = 0

\* job j starts: it becomes the active job
Starts(j) == ms.activeJob # j /\ ms'.activeJob = j

Processing == {"findNextJob", "start", "stop", "scheduleJobs"}

\* C28: a job in state ERROR stays in ERROR until findNextJob, a reset or
\* an evaluation of the jobs handles it: a handler that does none of these
\* leaves the job in ERROR, and in particular does not set it BUSY.
C28_ErrorUntilProcessed ==
    [][HandlerStep =>
        \A j \in JobIds :
            jobs[j].present /\ jobs[j].state = "SCHEDJOB_ERROR" /\ out' \cap Processing = {} =>
                jobs'[j].state = "SCHEDJOB_ERROR"]_vars


\* the run of job j was announced: j is the active job and has left the
\* stage IDLE, which it does only through the getNextAction that follows
\* the jobStarted event
Announced(j) == ms.activeJob = j /\ jobs[j].stage # "SCHEDSTAGE_IDLE"

EndedWithoutStart == "jobEnded" \in out' /\ \A j \in JobIds : ~Announced(j)

StartedTwice == "jobStarted" \in out' /\ \E j \in JobIds : Announced(j)

EndsUnannounced == \E j \in JobIds : Announced(j) /\ ms'.activeJob # j /\ "jobEnded" \notin out'

\* C29: the jobStarted and jobEnded events are paired per run of a job: a
\* handler emits jobEnded only for a run that was announced by jobStarted,
\* jobStarted is not emitted for a run that was already announced, and a
\* handler that ends an announced run (the job is no longer the active job)
\* emits jobEnded.
C29_EventsPaired ==
    [][HandlerStep => ~EndedWithoutStart /\ ~StartedTwice /\ ~EndsUnannounced]_vars


\* C30: a JOB-CHECK tick always finds an active job, and a handler that
\* clears the active job leaves the loop in another phase than JOB-CHECK.
C30_JobCheckHasActiveJob ==
    [][HandlerStep =>
        /\ "run.checkJobStage" \in out' => ms.activeJob # NoJob
        /\ ms.activeJob # NoJob /\ ms'.activeJob = NoJob => ms'.timerState # "RUN_JOBCHECK"]_vars


\* the delay stop() asks for before the wake-up of a soft shutdown
WakeupDelay == (secsTo(now, ms.wakeupTime) + 1) * 1000

\* stop() called in the present state left the state r
StoppedHard(r) ==
    /\ \A j \in JobIds :
          r.jobs[j].state =
              IF jobs[j].present /\ jobs[j].state \in {"SCHEDJOB_IDLE", "SCHEDJOB_EVALUATION",
                                                       "SCHEDJOB_SCHEDULED", "SCHEDJOB_BUSY"}
              THEN "SCHEDJOB_ABORTED" ELSE jobs[j].state
    /\ IF ms.activeJob = NoJob THEN TRUE
       ELSE /\ "stopCurrentJobAction" \in r.out
            /\ ExpectedAbort(jobs[ms.activeJob].stage) \subseteq r.out
            /\ r.jobs[ms.activeJob].stage = "SCHEDSTAGE_IDLE"
    /\ r.ms.timerState = "RUN_NOTHING"

StoppedSoft(r) ==
    /\ \A j \in JobIds : r.jobs[j].state = jobs[j].state
    /\ r.ms.timerState = "RUN_WAKEUP"
    /\ r.ms.timerInterval = IF ms.timerActive /\ WakeupDelay < 0 THEN 0 ELSE WakeupDelay

\* C31: stop() does nothing unless the scheduler is RUNNING.  When it is,
\* stop() leaves the scheduler IDLE with no active job and the four failure
\* counters at zero; without preemptive shutdown every job that was IDLE,
\* EVALUATION, SCHEDULED or BUSY is ABORTED and every other job keeps its
\* status, the action of the active job is stopped and its stage is IDLE,
\* and the phase is NOTHING; with preemptive shutdown no job changes its
\* status and the phase is WAKEUP, one second after the recorded wake-up time.
C31_StopOnlyWhenRunning ==
    IF ms.schedulerState # "SCHEDULER_RUNNING" THEN stop(Begin) = Begin
    ELSE /\ stop(Begin).ms.schedulerState = "SCHEDULER_IDLE"
         /\ stop(Begin).ms.activeJob = NoJob
         /\ CountersZero(stop(Begin).ms)
         /\ IF ms.preemptiveShutdown THEN StoppedSoft(stop(Begin)) ELSE StoppedHard(stop(Begin))

C31_Witness ==
    /\ "stop" \in out
    /\ "stopCurrentJobAction" \in out
    /\ ms.schedulerState = "SCHEDULER_IDLE"
    /\ ms.timerState = "RUN_NOTHING"
    /\ ms.activeJob = NoJob
    /\ jobs[1].state = "SCHEDJOB_ABORTED"
    /\ jobs[2].present /\ jobs[2].state \in {"SCHEDJOB_INVALID", "SCHEDJOB_COMPLETE"}


TickTokens ==
    {"run.wakeUpScheduler", "run.checkStatus", "run.checkJobStage", "run.checkShutdownState", "run.nothing"}

\* a tick of the loop while a pause is requested
PausedTick ==
    /\ HandlerStep
    /\ ms.schedulerState = "SCHEDULER_PAUSED"
    /\ out' \cap TickTokens # {}
    /\ "start" \notin out'

BusyJob == IF ms.activeJob = NoJob THEN FALSE ELSE jobs[ms.activeJob].state = "SCHEDJOB_BUSY"

\* C32: a pause does not interrupt a running job.  While a pause is
\* requested and the active job is BUSY, the JOB-CHECK tick checks the stage
\* of the job and the phase stays JOB-CHECK unless findNextJob ends the job;
\* a tick moves the loop to the phase NOTHING only when there is no active
\* job, when the active job is neither BUSY nor COMPLETE, or when findNextJob
\* ran; a tick in the phase NOTHING changes no job and no active job; and
\* no tick makes a job BUSY while the pause is requested.
C32_PauseWaitsForJob ==
    [][PausedTick =>
        /\ BusyJob /\ ms.timerState = "RUN_JOBCHECK" =>
              /\ "run.checkJobStage" \in out'
              /\ ms'.timerState = "RUN_JOBCHECK" \/ "findNextJob" \in out'
        /\ ms.timerState # "RUN_NOTHING" /\ ms'.timerState = "RUN_NOTHING" =>
              \/ ms.activeJob = NoJob
              \/ jobs[ms.activeJob].state \notin {"SCHEDJOB_BUSY", "SCHEDJOB_COMPLETE"}
              \/ "findNextJob" \in out'
        /\ ms.timerState = "RUN_NOTHING" => jobs' = jobs /\ ms'.activeJob = ms.activeJob
        /\ \A j \in JobIds : jobs'[j].state = "SCHEDJOB_BUSY" => jobs[j].state = "SCHEDJOB_BUSY"]_vars

\* a start request that execute() does not reject
AcceptedStart ==
    /\ HandlerStep
    /\ "start" \in out'
    /\ IF ms.schedulerState = "SCHEDULER_IDLE"
       THEN ~UrlRejected(options.startupScriptURL) /\ ~UrlRejected(options.shutdownScriptURL)
       ELSE ms.schedulerState = "SCHEDULER_PAUSED"

\* C33: start() begins a fresh session.  Every job of the list is IDLE
\* after it, init() sets the phase WAKEUP, and the wake-up tick that start()
\* runs calls execute(): from the state IDLE with valid script URLs, and
\* from the state PAUSED, the scheduler is RUNNING and the next phase is
\* SCHEDULER-EVALUATE.
C33_StartBeginsSession ==
    [][HandlerStep /\ "start" \in out' =>
        /\ \A j \in PresentJobs(Cur) : jobs'[j].state = "SCHEDJOB_IDLE"
        /\ init(Begin).ms.timerState = "RUN_WAKEUP"
        /\ "run.wakeUpScheduler" \in out'
        /\ AcceptedStart =>
              /\ ms'.schedulerState = "SCHEDULER_RUNNING"
              /\ ms'.timerState = "RUN_SCHEDULER"
              /\ ms'.timerActive]_vars

\* a paused scheduler is resumed while its job is capturing
C33_Witness ==
    /\ "start" \in out
    /\ ms.schedulerState = "SCHEDULER_RUNNING"
    /\ ms.timerState = "RUN_SCHEDULER"
    /\ ms.activeJob = 1
    /\ jobs[1].state = "SCHEDJOB_IDLE"
    /\ jobs[1].stage = "SCHEDSTAGE_CAPTURING"

\* now is before the startup time of job j
BeforeStartup(j) == 0 < secsTo(now, jobs[j].startupTime)

\* executeJob may start job j: the four conditions of its early returns
Due(j, e) ==
    /\ j # NoJob
    /\ ~(ms.activeJob = j /\ jobs[j].state = "SCHEDJOB_BUSY")
    /\ ~shouldSchedulerSleep(setActiveJob(Begin, j), j, e).r
    /\ ~BeforeStartup(j)

\* what executeJob(j) gives in the present state
Executed(j, e, x) ==
    /\ x.r <=> Due(j, e)
    /\ x.r => /\ x.s.jobs[j].state = "SCHEDJOB_BUSY"
              /\ x.s.ms.timerState = "RUN_JOBCHECK"
              /\ x.s.ms.activeJob = j
    /\ ~x.r => \A k \in JobIds : x.s.jobs[k].state = jobs[k].state
    /\ j = NoJob => x.s = Begin
    /\ j # NoJob /\ ms.activeJob = j /\ jobs[j].state = "SCHEDJOB_BUSY" => x.s = Begin

\* C34: no job becomes BUSY before its startup time.  executeJob sets the
\* job BUSY and the phase JOB-CHECK exactly when the job is not null, is not
\* the active job that is BUSY already, shouldSchedulerSleep is false and
\* now is not before the startup time; in every other case it returns false
\* and no job status changes, and on the BUSY active job and on no job
\* nothing changes at all.
C34_NoStartBeforeStartupTime ==
    [][/\ \A j \in PresentJobs(Cur) \cup {NoJob}, e \in ProcEnv : Executed(j, e, executeJob(Begin, j, e))
       /\ HandlerStep =>
             \A j \in JobIds : jobs[j].state # "SCHEDJOB_BUSY" /\ jobs'[j].state = "SCHEDJOB_BUSY" =>
                 ~(0 < secsTo(now', jobs'[j].startupTime))]_vars

\* a job that waited for its startup time is started when the time has come
C34_Witness ==
    /\ now > 0
    /\ "run.checkStatus" \in out
    /\ ms.activeJob = 1
    /\ jobs[1].state = "SCHEDJOB_BUSY"
    /\ jobs[1].startupTime = now
    /\ ms.timerState = "RUN_JOBCHECK"

\* the weather alert is acted on
WeatherShutdown == HandlerStep /\ "log.weatherShutdown" \in out'

\* C35: when a weather report is processed while the enforcement is
\* checked, the stored status is ALERT and the scheduler is neither IDLE nor
\* SHUTDOWN (PAUSED included), the active job, if any, is ABORTED with the
\* stage IDLE, the active job is cleared and the next phase is SHUTDOWN.
C35_WeatherAlertShutsDown ==
    [][WeatherShutdown =>
        /\ IF ms.activeJob = NoJob THEN TRUE
           ELSE /\ jobs'[ms.activeJob].state = "SCHEDJOB_ABORTED"
                /\ jobs'[ms.activeJob].stage = "SCHEDSTAGE_IDLE"
        /\ ms'.activeJob = NoJob
        /\ ms'.timerState = "RUN_SHUTDOWN"]_vars

\* the SCHEDULER-EVALUATE tick of a running scheduler without an active job
EvaluateTick ==
    /\ HandlerStep
    /\ "run.checkStatus" \in out'
    /\ ms.schedulerState = "SCHEDULER_RUNNING"
    /\ ms.activeJob = NoJob

\* C36: when nothing is left to run the observatory is shut down.  On a
\* SCHEDULER-EVALUATE tick of the running scheduler without an active job,
\* with no shutdown in progress and no parking to wait for, an evaluation
\* that selects no job starts the shutdown and the next phase is SHUTDOWN;
\* with the shutdown state COMPLETE or ERROR the tick completes the shutdown
\* (the scheduler is stopped) and evaluates no job.
C36_ShutdownWhenNothingLeft ==
    [][EvaluateTick =>
        /\ /\ ms.shutdownState = "SHUTDOWN_IDLE"
           /\ ms.parkWaitState # "PARKWAIT_PARK"
           /\ ms'.activeJob = NoJob
           => /\ ms'.timerState = "RUN_SHUTDOWN"
              /\ ms'.shutdownState # "SHUTDOWN_IDLE"
        /\ ms.shutdownState \in {"SHUTDOWN_COMPLETE", "SHUTDOWN_ERROR"}
           => /\ "stop" \in out'
              /\ ms'.schedulerState = "SCHEDULER_IDLE"
              /\ out' \cap EvaluationTokens = {}]_vars

\* the only job is complete and the evaluation finds nothing to run
C36_Witness ==
    /\ {"run.checkStatus", "log.noJobsLeft"} \subseteq out
    /\ ms.schedulerState = "SCHEDULER_RUNNING"
    /\ ms.activeJob = NoJob
    /\ ms.timerState = "RUN_SHUTDOWN"
    /\ jobs[1].state = "SCHEDJOB_COMPLETE"

\* a capture status is processed: an active job that has started, in the
\* stage CAPTURING
InCapture ==
    IF ms.activeJob = NoJob THEN FALSE
    ELSE ~notStartedYet(Cur) /\ jobs[ms.activeJob].stage = "SCHEDSTAGE_CAPTURING"

\* the restart after a failed capture: guiding if the job guides and the
\* guider is in an error state, capture otherwise
Retry(e) ==
    IF "USE_GUIDE" \in jobs[ms.activeJob].stepPipeline /\ e.guideError THEN {"guide.start"} ELSE {"capture.start"}

\* what CAPTURE_ABORTED gives in the present state
CaptureAborted(e, a) ==
    IF ms.captureFailureCount + 1 <= MaxFailureAttempts
    THEN /\ a.ms.captureFailureCount = ms.captureFailureCount + 1
         /\ a.out = Retry(e)
         /\ a.jobs[ms.activeJob].state = jobs[ms.activeJob].state
         /\ a.ms.activeJob = ms.activeJob
    ELSE /\ "findNextJob" \in a.out
         /\ a.out \cap StartCommands = {}
         /\ IF ms.schedulerState = "SCHEDULER_PAUSED"
            THEN a.jobs[ms.activeJob].state = "SCHEDJOB_ABORTED"
            ELSE "log.jobAborted" \in a.out

\* C37: CAPTURE_ABORTED in the stage CAPTURING increments the capture
\* failure counter; while the counter does not exceed the maximum the capture
\* is restarted (guiding instead, if the job guides and the guider failed)
\* and the job keeps its status and stays the active job; once it exceeds
\* the maximum the job is ABORTED and findNextJob runs.
\* CAPTURE_IMAGE_RECEIVED resets the counter to zero.
C37_CaptureAbortRetries ==
    InCapture =>
        \A e \in CaptureEnv :
            /\ CaptureAborted(e, setCaptureStatus(Begin, "CAPTURE_ABORTED", e))
            /\ setCaptureStatus(Begin, "CAPTURE_IMAGE_RECEIVED", e).ms.captureFailureCount = 0

\* the capture of the running job failed once and was restarted
C37_Witness ==
    /\ InCapture
    /\ jobs[ms.activeJob].state = "SCHEDJOB_BUSY"
    /\ ms.captureFailureCount = MaxFailureAttempts
    /\ out = {"capture.start"}

\* C38: findNextJob is entered, when the scheduler is not paused, only
\* with an active job whose status is ERROR, ABORTED, COMPLETE or IDLE: the
\* assertion at its top never fails.
C38_FindNextJobAsserted == "findNextJob.assert" \notin out

\* findNextJob ended a job of the running scheduler
C38_Witness ==
    /\ {"findNextJob", "jobEnded"} \subseteq out
    /\ ms.schedulerState = "SCHEDULER_RUNNING"

\* the active job is SCHEDULED and now is before its startup time
WaitsForStartup ==
    IF ms.activeJob = NoJob THEN FALSE
    ELSE /\ jobs[ms.activeJob].state = "SCHEDJOB_SCHEDULED"
         /\ jobs[ms.activeJob].startupTime # InvalidTime
         /\ now < jobs[ms.activeJob].startupTime

\* the active job is not in the stage CAPTURING
OtherStage == IF ms.activeJob = NoJob THEN FALSE ELSE jobs[ms.activeJob].stage # "SCHEDSTAGE_CAPTURING"

\* C39: a capture status changes nothing (no job status, no stage, no
\* failure counter, no count of completed frames, no loop phase) when there
\* is no active job, when the active job is SCHEDULED and now is before its
\* startup time, or when the stage of the active job is not CAPTURING.
C39_CaptureStatusIgnored ==
    ms.activeJob = NoJob \/ WaitsForStartup \/ OtherStage =>
        \A status \in CaptureStatuses, e \in CaptureEnv : setCaptureStatus(Begin, status, e) = Begin

\* the selected job waits for its startup time while the scheduler runs
C39_Witness ==
    /\ ms.activeJob = 1
    /\ WaitsForStartup
    /\ ms.schedulerState = "SCHEDULER_RUNNING"

\* the rows in the queue of the overlays to solve
Queued(o) == {o.rowsToSolve[i] : i \in DOMAIN o.rowsToSolve}

\* a done signal is processed
DoneStep == overlay' # overlay /\ overlay'.op = "solverDone"

\* C40: a done signal of the solver received with a non-empty queue removes
\* exactly the head row and sets the status of that overlay only, AVAILABLE
\* if the solver neither timed out nor failed and PLATE_SOLVE_FAILURE
\* otherwise, and the solver is started on the next row, until the queue is
\* empty; a done signal received with an empty queue changes no overlay; an
\* AVAILABLE overlay is never in the queue and never changes its status.
C40_SolveQueue ==
    /\ [][/\ DoneStep =>
              IF overlay.rowsToSolve = <<>>
              THEN overlay'.status = overlay.status /\ overlay'.rowsToSolve = <<>>
              ELSE /\ overlay'.rowsToSolve = Tail(overlay.rowsToSolve)
                   /\ \A r \in Rows \ {Head(overlay.rowsToSolve)} : overlay'.status[r] = overlay.status[r]
                   /\ overlay'.status[Head(overlay.rowsToSolve)] =
                          IF overlay'.solved THEN "AVAILABLE" ELSE "PLATE_SOLVE_FAILURE"
                   /\ overlay'.rowsToSolve # <<>> =>
                          overlay'.solver = "running" /\ overlay'.solving = Head(overlay'.rowsToSolve)
          /\ \A r \in Rows : overlay.status[r] = "AVAILABLE" =>
                 overlay'.status[r] = "AVAILABLE" /\ r \notin Queued(overlay')]_vars
    /\ []<>(overlay.rowsToSolve = <<>>)

\* the second of three queued overlays is solved, the first one failed
C40_Witness ==
    /\ overlay.op = "solverDone"
    /\ overlay.solved
    /\ Len(overlay.rowsToSolve) = 1
    /\ overlay.solver = "running"
    /\ \E r \in Rows : overlay.status[r] = "PLATE_SOLVE_FAILURE"
    /\ \E r \in Rows : overlay.status[r] = "AVAILABLE"

====
